---- MODULE Spec2Model ----
(***************************************************************************)
(* The device-resident Command Execution Core of automated-garden: the     *)
(* FreeRTOS tasks of garden-controller.ino / mqtt.ino and of the earlier   *)
(* single-file firmware (src/unnamed/part_003), which adds the skip flag   *)
(* and the button task; and the garden-app server's water schedule        *)
(* handlers (server/water_schedule.go) with the Job Table they drive.      *)
(*                                                                         *)
(* Time is counted in scheduler ticks while the consumer sits in           *)
(* xTaskNotifyWait; a task made ready by a notification or a timeout runs  *)
(* before the next tick.                                                   *)
(***************************************************************************)
EXTENDS Integers, Sequences, FiniteSets, TLC

(* ----------------------------- bounds --------------------------------- *)

\* Capacity of both FreeRTOS queues, scaled down (#define QUEUE_SIZE 10).
QUEUE_SIZE == 2

\* DEFAULT_WATER_TIME in ticks, scaled down (15000 ms in part_003).
DEFAULT_WATER_TIME == 2

\* Watering events accepted onto the queue or waiting for a slot, in one run.
MaxEvents == 3

\* DEBOUNCE_DELAY in clock ticks, scaled down (50 ms in part_003).
DEBOUNCE_DELAY == 1

\* Last value of millis() in a run of the button task.
MaxTime == 6

\* WaterSchedules created in one run.
MaxSchedules == 1

\* Last instant of the server's clock in a run.
MaxClock == 4

\* Longest interval and latest start_time of a WaterSchedule.
MaxInterval == 2

\* Largest value a weather or moisture source reads.
MaxReading == 3

(* ----------------------------- values --------------------------------- *)

\* #define NUM_VALVES 3
NUM_VALVES == 3

\* Width of unsigned long in the model: millis() counts modulo 2^MillisBits.
MillisBits == 3

\* INTERVAL of the configuration, in the model's milliseconds.
INTERVAL == 2

\* Rounds of waterIntervalTask a behaviour may hold.
MaxRounds == 3

Valves == 0 .. (NUM_VALVES - 1)

\* plant_position of an incoming command: -1 is what a payload without the
\* field decodes to, NUM_VALVES is the first index past the valves.
Positions == -1 .. NUM_VALVES

\* duration of an incoming command; 0 is what a payload without it decodes to.
Durations == {0, 1}

WaterCommands == [pos : Positions, dur : Durations]

\* The JSON document of a message on the water topic: each field is there
\* ({x}) or not ({}); after a failed deserializeJson none is.
Payloads == [position : {{}} \cup {{p} : p \in Positions},
             duration : {{}} \cup {{d} : d \in Durations}]

\* The contents of `we' when the consumer holds no event.
NoEvent == [id |-> 0, pos |-> 0, dur |-> 0]

\* A date field that is not set (a nil *time.Time); a set one is {t}.
NoDate == {}

\* The values of a date field.
Dates(ts) == {NoDate} \cup {{t} : t \in ts}

ScheduleIds == 1 .. MaxSchedules
Instants == 0 .. MaxClock
Intervals == 1 .. MaxInterval

\* The intervals a request can carry: a valid one, or none at all.
AnyIntervals == 0 .. MaxInterval

\* Errors of the worker and the handlers.
NoError == "nil"
InvalidSchedule == "InvalidSchedule"
ProviderUnavailable == "ProviderUnavailable"
DispatchFailure == "DispatchFailure"

ErrInvalidRequest == "InvalidRequest"

\* What a fire can end with: no error, or one of the evaluator or dispatcher.
FireErrors == {NoError, ProviderUnavailable, DispatchFailure}
StartTimes == 0 .. MaxInterval

\* The end dates a request can carry: none, or an early one.
EndDates == Dates({1})

\* The nominal watering durations a request can carry.
ScheduleDurations == {1, 2}

\* The WaterSchedules a request can carry.
WaterSchedules == [interval : AnyIntervals, start : StartTimes, endDate : EndDates,
                   duration : ScheduleDurations]

\* What a reading source returns: a value, or an error.
Readings == 0 .. MaxReading
ReadingResults == {[ok |-> TRUE, value |-> v] : v \in Readings}
                      \cup {[ok |-> FALSE, value |-> 0]}

\* A rain or temperature control that is not configured.
NoControl == [form |-> "none"]

\* Scaling controls {baseline_value, factor, range}, with the upper bound of
\* the scale. The values drawn keep factor * deviation / range whole.
ScaleControls == [form : {"scale"}, baseline : {2}, factor : {0, 2}, range : {1, 2},
                  upper : {2}]

\* Rain controls in threshold form.
ThresholdControls == [form : {"threshold"}, threshold : {2}]

Gardens == {1, 2}

(* Zone values of pkg: a pointer field is the empty set (nil) or holds one
   value; a string field may be "". *)
Opt(S) == {{}} \cup {{x} : x \in S}
Val(s) == CHOOSE x \in s : TRUE

ZoneStrings == {"", "a", "b"}
ZoneTimes == {1, 2}

\* weather.ScaleControl: three *float32.
ZoneScaleControls == [BaselineValue : Opt({1, 2}), Factor : Opt({1}), Range : Opt({1})]
EmptyScaleControl == [BaselineValue |-> {}, Factor |-> {}, Range |-> {}]

\* weather.SoilMoistureControl.
ZoneSoilControls == [MinimumMoisture : {0, 1, 2}]
EmptySoilControl == [MinimumMoisture |-> 0]

EmptyControl == [Rain |-> {}, SoilMoisture |-> {}, Temperature |-> {}]
EmptySchedule == [Duration |-> "", Interval |-> "", StartTime |-> {}, WeatherControl |-> {}]
EmptyDetails == [Description |-> "", Notes |-> ""]

\* The Zone with every field at its zero value.
BaseZone == [Name |-> "", Details |-> {}, ID |-> 1, Position |-> {}, CreatedAt |-> {},
             EndDate |-> {}, WaterSchedule |-> {}]

\* The Zones and patches drawn: each family varies one part of the Zone in
\* full and leaves the rest at its zero value.
TopZones == {[BaseZone EXCEPT !.Name = n, !.ID = i, !.Position = p, !.CreatedAt = c, !.EndDate = e] :
                n \in ZoneStrings, i \in {1, 2}, p \in Opt({0, 1}), c \in Opt(ZoneTimes),
                e \in Opt(ZoneTimes)}
ScheduleZones == {[BaseZone EXCEPT !.WaterSchedule = {ws}] :
                     ws \in [Duration : ZoneStrings, Interval : ZoneStrings,
                             StartTime : Opt(ZoneTimes), WeatherControl : Opt({EmptyControl})]}
ControlZones == {[BaseZone EXCEPT !.WaterSchedule = {[EmptySchedule EXCEPT !.WeatherControl = {wc}]}] :
                    wc \in [Rain : Opt(ZoneScaleControls), SoilMoisture : Opt(ZoneSoilControls),
                            Temperature : {{}}]
                        \cup [Rain : {{}}, SoilMoisture : {{}}, Temperature : Opt(ZoneScaleControls)]}
DetailZones == {[BaseZone EXCEPT !.Details = {d}] :
                   d \in [Description : ZoneStrings, Notes : ZoneStrings]}
ZoneValues == TopZones \cup ScheduleZones \cup ControlZones \cup DetailZones

\* The ids of the WeatherClient configs; xid.New() never gives a WaterSchedule
\* one of them.
WeatherClientIds == {11, 12}

\* A ClientID of a rain or temperature control: none when the control is
\* not configured, else any id a request can carry.
ClientRefs == {{}} \cup {{c} : c \in WeatherClientIds \cup ScheduleIds}

\* The weather_control of a WaterSchedule: the client of its rain control, the
\* client of its temperature control (whose factor is not 0), and whether its
\* values pass pkg.ValidateWeatherControl.
WeatherControls == [rain : ClientRefs, temperature : ClientRefs, valid : BOOLEAN]

\* A WaterSchedule without weather_control.
NoWeatherControl == [rain |-> {}, temperature |-> {}, valid |-> TRUE]

\* The schedules of the requests that are about weather control.
PlainSchedules == [interval : {1}, start : {0, 1}, endDate : {NoDate}, duration : {1}]

\* The stored Zones: the garden they belong to, their end date, the
\* WaterSchedules they use.
ZoneRecords == [garden : Gardens, endDate : EndDates, waterScheduleIDs : SUBSET ScheduleIds]

\* The Zones (with their WaterSchedule's controls) a water action runs for:
\* soil is minimum_moisture, 0 when there is no soil-moisture control.
Zones == [garden : Gardens, duration : ScheduleDurations, soil : {0, 2},
          rain : {NoControl} \cup ThresholdControls \cup ScaleControls,
          temperature : {NoControl} \cup ScaleControls]

\* What the collaborators answer during one water action.
Collaborators == [moisture : ReadingResults, rain : ReadingResults,
                  temperature : ReadingResults, topic : BOOLEAN, publish : BOOLEAN]

VARIABLES
    wateringQueue,       \* xQueue of WateringEvent, FIFO
    waterPublisherQueue, \* xQueue of finished WateringEvent for the publisher
    we,                  \* waterPlantTask's local WateringEvent
    wpc,                 \* waterPlantTask's position: receive, clear, wait, send
    elapsed,             \* millis() - start while the consumer waits
    notifyPending,       \* the consumer's notification state is "received"
    valve,               \* valve output level per plant
    pump,                \* pump output level per plant
    skipValve,           \* skipValve[] of part_003
    connected,           \* client.connected()
    mpc,                 \* mqttLoopTask inside processIncomingMessage: idle, blocked, notify
    mPending,            \* the event mqttLoopTask is blocked sending
    bpc,                 \* readButtonsTask: idle, blocked
    bPending,            \* the event readButtonsTask is blocked sending
    ipc,                 \* waterIntervalTask: index of the next valve of the boot round
    lastPublished,       \* history: id of the last record handed to client.publish
    lastTaken,           \* history: id of the last record waterPublisherTask received
    nextId,              \* history: sequence number of the next accepted event
    requested,           \* history: duration of `we' as it was dequeued
    interrupted,         \* history: the wait of `we' ended on a notification
    lastStarted,         \* history: id of the last event whose valve was opened
    drained,             \* history: ids removed by xQueueReset
    resetInFlight,       \* history: stopAllWatering ran xQueueReset while `we' executed and has not notified yet
    now,                 \* millis()
    scan,                \* readButtonsTask: the input it reads next, NUM_VALVES is the stop input
    lastDebounceTime,    \* lastDebounceTime, one for all valve buttons
    buttonStates,        \* buttonStates[]
    lastButtonStates,    \* lastButtonStates[]
    lastStopDebounceTime,
    stopButtonState,
    lastStopButtonState,
    since,               \* history: per input, millis() at the sample that last differed from the sample before
    clock,               \* time.Now() of the server
    stored,              \* storageClient.WaterSchedules: id -> WaterSchedule
    jobs,                \* the worker's Job Table
    nextSchedule,        \* the id the next xid.New() gives
    lastFire,            \* history: per id, the scheduled instant of its Job's last fire
    inflight,            \* per id, the duration a fire in progress has read
    logged,              \* the error the last completed fire logged
    serving,             \* NewWaterSchedulesResource returned without error
    err,                 \* the error the last handler or boot returned
    zone,                \* the Zone a water action is executed for
    collaborators,       \* the readings and the MQTT client's answers
    sent,                \* the messages the MQTT client has published
    returned,            \* what the water action returned
    gardenStore,         \* storageClient.Gardens: per garden, its end date
    zoneStore,           \* storageClient.Zones
    weatherClients,      \* storageClient.WeatherClientConfigs: the stored ids
    weatherControl,      \* per WaterSchedule id, its weather_control
    request,             \* history: the weather_control of the last POST
    executed,            \* the action that has run: none yet, one with a water part, an empty one
    previousMillis,      \* previousMillis of waterIntervalTask
    ivc,                 \* waterIntervalTask's position: test, round, delay
    delayLeft,           \* milliseconds until its vTaskDelay ends
    sinceRound,          \* history: milliseconds since the last round's millis() reading (since boot before it)
    rounds,              \* history: rounds started
    zoneValue,           \* the Zone z that Patch is called on
    newZone,             \* the argument of the last Patch
    zoneBefore,          \* history: z before the first Patch
    zoneOnce,            \* history: z after the first Patch
    applied              \* history: calls of Patch so far

vars == <<wateringQueue, waterPublisherQueue, we, wpc, elapsed, notifyPending,
          valve, pump, skipValve, connected, mpc, mPending, bpc, bPending, ipc,
          lastPublished, lastTaken, nextId, requested, interrupted, lastStarted,
          drained, resetInFlight, now, scan, lastDebounceTime, buttonStates,
          lastButtonStates, lastStopDebounceTime, stopButtonState,
          lastStopButtonState, since, clock, stored, jobs, nextSchedule, lastFire,
          inflight, logged, serving, err, zone, collaborators, sent, returned,
          gardenStore, zoneStore, weatherClients, weatherControl, request,
          executed, previousMillis, ivc, delayLeft, sinceRound, rounds,
          zoneValue, newZone, zoneBefore, zoneOnce, applied>>

consumerVars == <<we, wpc, elapsed, valve, pump, requested, interrupted, lastStarted>>
mqttVars == <<mpc, mPending>>
buttonVars == <<bpc, bPending>>
inputVars == <<now, scan, lastDebounceTime, buttonStates, lastButtonStates,
               lastStopDebounceTime, stopButtonState, lastStopButtonState, since>>

intervalVars == <<previousMillis, ivc, delayLeft, sinceRound, rounds>>

patchVars == <<zoneValue, newZone, zoneBefore, zoneOnce, applied>>

zoneVars == <<gardenStore, zoneStore, patchVars>>

weatherVars == <<weatherClients, weatherControl, request>>

schedVars == <<clock, stored, jobs, nextSchedule, lastFire, inflight, logged,
              serving, err, zoneVars, weatherVars>>

workerVars == <<zone, collaborators, sent, returned, executed>>

\* Everything the firmware holds: the server's actions leave it alone.
deviceVars == <<wateringQueue, waterPublisherQueue, consumerVars, notifyPending,
                skipValve, connected, mqttVars, buttonVars, ipc, lastPublished,
                lastTaken, nextId, drained, resetInFlight, inputVars, intervalVars>>

\* The range of unsigned long.
Wrap == 2 ^ MillisBits

\* Conversion to unsigned long.
UnsignedLong(x) == x % Wrap

\* gpio levels.
LOW == FALSE
HIGH == TRUE

\* The inputs readButtonsTask samples: the valve buttons, then the stop button.
Inputs == 0 .. NUM_VALVES

(* ----------------------------- helpers -------------------------------- *)

\* Events that wait for a slot: they count against MaxEvents.
Pending == (IF mpc = "blocked" THEN 1 ELSE 0) + (IF bpc = "blocked" THEN 1 ELSE 0)

CanAccept == nextId + Pending <= MaxEvents

\* Faulty variant of QueueFull: the capacity test is off by one.
QueueFullOffByOne(q) == Len(q) > QUEUE_SIZE

\* xQueueSend finds no free slot in q.
QueueFull(q) == Len(q) >= QUEUE_SIZE

\* waterPlant's bounds check.
InRange(pos) == ~(pos >= NUM_VALVES \/ pos < 0)

\* Faulty variant of Enqueue: the event goes to the front of the queue.
EnqueueFront(q, pos, dur) == <<[id |-> nextId, pos |-> pos, dur |-> dur]>> \o q

\* xQueueSend(wateringQueue, &we, portMAX_DELAY) once a slot is free.
Enqueue(q, pos, dur) == Append(q, [id |-> nextId, pos |-> pos, dur |-> dur])

\* Faulty variant of ulTaskNotifyTake: a pending notification stays pending.
ulTaskNotifyKeep(pending) == pending

\* ulTaskNotifyTake(NULL, 0): the task's notification state after the call.
ulTaskNotifyTake(pending) == FALSE

\* Faulty variant of Normalize: a zero duration is left as it is.
NormalizeNone(dur) == dur

\* if (we.duration == 0) we.duration = DEFAULT_WATER_TIME;
Normalize(dur) == IF dur = 0 THEN DEFAULT_WATER_TIME ELSE dur

\* Faulty variant of plantOff: the pin is left at its level.
plantOffStuck(out, id) == out

\* plantOn / plantOff: the pump pin and the valve pin of one plant.
plantOn(out, id) == [out EXCEPT ![id] = TRUE]
plantOff(out, id) == [out EXCEPT ![id] = FALSE]

\* Faulty variant of TimedOut: the wait ends one tick late.
TimedOutLate(e, t) == t > e.dur

\* The timeout of xTaskNotifyWait(.., we.duration / portTICK_PERIOD_MS) expired.
TimedOut(e, t) == t >= e.dur

\* Faulty variant of Recorded: the requested duration is kept.
RecordedRequested(e, t) == e

\* we.duration = stop - start;
Recorded(e, t) == [e EXCEPT !.dur = t]

\* Faulty variant of Forward: the record is not put on the queue.
ForwardNothing(q, e) == q

\* xQueueSend(waterPublisherQueue, &we, portMAX_DELAY) once a slot is free.
Forward(q, e) == Append(q, e)

\* Faulty variant of Dequeue: the newest item is taken.
DequeueLast(q) == q[Len(q)]

\* xQueueReceive(wateringQueue, &we, 0) returning true: the item and what stays.
Dequeue(q) == Head(q)
Rest(q) == Tail(q)

\* Faulty variant of ResetQueue: only the oldest item is removed.
ResetQueueHead(q) == IF q = <<>> THEN q ELSE Tail(q)

\* xQueueReset(wateringQueue).
ResetQueue(q) == <<>>

Ids(q) == {q[i].id : i \in 1 .. Len(q)}

\* Faulty variant of Publish: the record goes out whatever the connection is.
PublishAlways(conn, last, e) == e.id

\* if (client.connected()) client.publish(..) else only a log line: the id of
\* the last record published, after the publisher has handled e.
Publish(conn, last, e) == IF conn THEN e.id ELSE last

(* ------------------------------ Init ---------------------------------- *)

\* The firmware after setup().
InitDevice ==
    /\ wateringQueue = <<>>
    /\ waterPublisherQueue = <<>>
    /\ we = NoEvent
    /\ wpc = "receive"
    /\ elapsed = 0
    /\ notifyPending = FALSE
    /\ valve = [v \in Valves |-> FALSE]
    /\ pump = [v \in Valves |-> FALSE]
    /\ skipValve = [v \in Valves |-> FALSE]
    /\ connected = FALSE
    /\ mpc = "idle"
    /\ mPending = NoEvent
    /\ bpc = "idle"
    /\ bPending = NoEvent
    /\ ipc = 0
    /\ previousMillis = UnsignedLong(0 - INTERVAL)
    /\ ivc = "test"
    /\ delayLeft = 0
    /\ sinceRound = 0
    /\ rounds = 0
    /\ lastPublished = 0
    /\ lastTaken = 0
    /\ nextId = 1
    /\ requested = 0
    /\ interrupted = FALSE
    /\ lastStarted = 0
    /\ drained = {}
    /\ resetInFlight = FALSE
    /\ now = 0
    /\ scan = 0
    /\ lastDebounceTime = 0
    /\ buttonStates = [v \in Valves |-> LOW]
    /\ lastButtonStates = [v \in Valves |-> LOW]
    /\ lastStopDebounceTime = 0
    /\ stopButtonState = LOW
    /\ lastStopButtonState = LOW
    /\ since = [i \in Inputs |-> 0]

\* No Zone has been patched.
InitPatch ==
    /\ zoneValue = BaseZone
    /\ newZone = BaseZone
    /\ zoneBefore = BaseZone
    /\ zoneOnce = BaseZone
    /\ applied = 0

\* The server after NewWaterSchedulesResource on an empty storage.
InitServer ==
    /\ clock = 0
    /\ stored = [i \in {} |-> NoDate]
    /\ jobs = {}
    /\ nextSchedule = 1
    /\ lastFire = [i \in ScheduleIds |-> NoDate]
    /\ inflight = [i \in ScheduleIds |-> {}]
    /\ logged = NoError
    /\ serving = TRUE
    /\ err = NoError
    /\ gardenStore = [g \in Gardens |-> NoDate]
    /\ zoneStore = {}
    /\ InitPatch
    /\ weatherClients = {}
    /\ weatherControl = [i \in ScheduleIds |-> NoWeatherControl]
    /\ request = NoWeatherControl

\* The worker before any water action: a Zone without controls.
InitWorker ==
    /\ zone = [garden |-> 1, duration |-> 1, soil |-> 0, rain |-> NoControl,
               temperature |-> NoControl]
    /\ collaborators = [moisture |-> [ok |-> TRUE, value |-> 0],
                        rain |-> [ok |-> TRUE, value |-> 0],
                        temperature |-> [ok |-> TRUE, value |-> 0],
                        topic |-> TRUE, publish |-> TRUE]
    /\ sent = <<>>
    /\ returned = NoError
    /\ executed = "no"

Init == InitDevice /\ InitServer /\ InitWorker

(* ------------------------- waterPlantTask ----------------------------- *)

\* xQueueReceive(wateringQueue, &we, 0) returned true.
WaterPlantTaskReceive ==
    /\ wpc = "receive"
    /\ wateringQueue /= <<>>
    /\ we' = Dequeue(wateringQueue)
    /\ wateringQueue' = Rest(wateringQueue)
    /\ requested' = Dequeue(wateringQueue).dur
    /\ wpc' = "clear"
    /\ UNCHANGED <<waterPublisherQueue, elapsed, notifyPending, valve, pump,
                   skipValve, connected, mqttVars, buttonVars, ipc, lastPublished, lastTaken,
                   nextId, interrupted, lastStarted, drained, resetInFlight>>
    /\ UNCHANGED inputVars
    /\ UNCHANGED intervalVars
    /\ UNCHANGED schedVars
    /\ UNCHANGED workerVars

\* Faulty variant of ClearSkip: the flag stays set after the skipped event.
KeepSkip(skip, id) == skip

\* skipValve[we.valve_id] = false, in the skip branch of waterPlantTask.
ClearSkip(skip, id) == [skip EXCEPT ![id] = FALSE]

\* ulTaskNotifyTake(NULL, 0); the zero-duration default; the skip test; then
\* either plantOn and entry into xTaskNotifyWait, or the skip branch.
WaterPlantTaskStart ==
    /\ wpc = "clear"
    /\ notifyPending' = ulTaskNotifyTake(notifyPending)
    /\ IF ~skipValve[we.pos]
       THEN /\ we' = [we EXCEPT !.dur = Normalize(we.dur)]
            /\ elapsed' = 0
            /\ valve' = plantOn(valve, we.pos)
            /\ pump' = plantOn(pump, we.pos)
            /\ lastStarted' = we.id
            /\ wpc' = "wait"
            /\ UNCHANGED <<skipValve, requested>>
       ELSE /\ skipValve' = ClearSkip(skipValve, we.pos)
            /\ we' = NoEvent
            /\ requested' = 0
            /\ wpc' = "receive"
            /\ UNCHANGED <<elapsed, valve, pump, lastStarted>>
    /\ UNCHANGED <<wateringQueue, waterPublisherQueue, connected, mqttVars,
                   buttonVars, ipc, lastPublished, lastTaken, nextId, interrupted, drained,
                   resetInFlight>>
    /\ UNCHANGED inputVars
    /\ UNCHANGED intervalVars
    /\ UNCHANGED schedVars
    /\ UNCHANGED workerVars

\* One tick passes while the consumer is blocked in xTaskNotifyWait with its
\* timeout not yet expired and no notification received.
Tick ==
    /\ wpc = "wait"
    /\ ~notifyPending
    /\ ~TimedOut(we, elapsed)
    /\ elapsed' = elapsed + 1
    /\ UNCHANGED <<wateringQueue, waterPublisherQueue, we, wpc, notifyPending,
                   valve, pump, skipValve, connected, mqttVars, buttonVars, ipc,
                   lastPublished, lastTaken, nextId, requested, interrupted, lastStarted, drained,
                   resetInFlight>>
    /\ UNCHANGED inputVars
    /\ UNCHANGED intervalVars
    /\ UNCHANGED schedVars
    /\ UNCHANGED workerVars

\* xTaskNotifyWait returns (notification or timeout); stop = millis();
\* plantOff; we.duration = stop - start.
WaterPlantTaskStop ==
    /\ wpc = "wait"
    /\ notifyPending \/ TimedOut(we, elapsed)
    /\ interrupted' = notifyPending
    /\ notifyPending' = FALSE
    /\ valve' = plantOff(valve, we.pos)
    /\ pump' = plantOff(pump, we.pos)
    /\ we' = Recorded(we, elapsed)
    /\ elapsed' = 0
    /\ resetInFlight' = FALSE
    /\ wpc' = "send"
    /\ UNCHANGED <<wateringQueue, waterPublisherQueue, skipValve, connected,
                   mqttVars, buttonVars, ipc, lastPublished, lastTaken, nextId, requested,
                   lastStarted, drained>>
    /\ UNCHANGED inputVars
    /\ UNCHANGED intervalVars
    /\ UNCHANGED schedVars
    /\ UNCHANGED workerVars

\* xQueueSend(waterPublisherQueue, &we, portMAX_DELAY): waits for a free slot.
WaterPlantTaskSend ==
    /\ wpc = "send"
    /\ ~QueueFull(waterPublisherQueue)
    /\ waterPublisherQueue' = Forward(waterPublisherQueue, we)
    /\ we' = NoEvent
    /\ requested' = 0
    /\ interrupted' = FALSE
    /\ wpc' = "receive"
    /\ UNCHANGED <<wateringQueue, elapsed, notifyPending, valve, pump, skipValve,
                   connected, mqttVars, buttonVars, ipc, lastPublished, lastTaken, nextId,
                   lastStarted, drained, resetInFlight>>
    /\ UNCHANGED inputVars
    /\ UNCHANGED intervalVars
    /\ UNCHANGED schedVars
    /\ UNCHANGED workerVars

(* ------------------------ waterPublisherTask -------------------------- *)

\* xQueueReceive(waterPublisherQueue, &we, portMAX_DELAY); publish when
\* connected, else only a log line.
WaterPublisherTask ==
    /\ waterPublisherQueue /= <<>>
    /\ waterPublisherQueue' = Tail(waterPublisherQueue)
    /\ lastPublished' = Publish(connected, lastPublished, Head(waterPublisherQueue))
    /\ lastTaken' = Head(waterPublisherQueue).id
    /\ UNCHANGED <<wateringQueue, consumerVars, notifyPending, skipValve,
                   connected, mqttVars, buttonVars, ipc, nextId, drained, resetInFlight>>
    /\ UNCHANGED inputVars
    /\ UNCHANGED intervalVars
    /\ UNCHANGED schedVars
    /\ UNCHANGED workerVars

(* -------------------------- mqttConnectTask --------------------------- *)

MqttConnect ==
    /\ ~connected
    /\ connected' = TRUE
    /\ UNCHANGED <<wateringQueue, waterPublisherQueue, consumerVars,
                   notifyPending, skipValve, mqttVars, buttonVars, ipc, lastPublished, lastTaken,
                   nextId, drained, resetInFlight>>
    /\ UNCHANGED inputVars
    /\ UNCHANGED intervalVars
    /\ UNCHANGED schedVars
    /\ UNCHANGED workerVars

\* The broker connection is lost.
MqttDisconnect ==
    /\ connected
    /\ connected' = FALSE
    /\ UNCHANGED <<wateringQueue, waterPublisherQueue, consumerVars,
                   notifyPending, skipValve, mqttVars, buttonVars, ipc, lastPublished, lastTaken,
                   nextId, drained, resetInFlight>>
    /\ UNCHANGED inputVars
    /\ UNCHANGED intervalVars
    /\ UNCHANGED schedVars
    /\ UNCHANGED workerVars

(* ----------------- mqttLoopTask: processIncomingMessage --------------- *)

\* waterCommandTopic: waterPlant(we). Out of range: dropped. Queue full: the
\* task stays inside xQueueSend.
MqttWater(cmd) ==
    /\ connected
    /\ mpc = "idle"
    /\ IF ~InRange(cmd.pos)
       THEN UNCHANGED <<wateringQueue, mqttVars, nextId>>
       ELSE /\ CanAccept
            /\ IF QueueFull(wateringQueue)
               THEN /\ mpc' = "blocked"
                    /\ mPending' = [id |-> 0, pos |-> cmd.pos, dur |-> cmd.dur]
                    /\ UNCHANGED <<wateringQueue, nextId>>
               ELSE /\ wateringQueue' = Enqueue(wateringQueue, cmd.pos, cmd.dur)
                    /\ nextId' = nextId + 1
                    /\ UNCHANGED mqttVars
    /\ UNCHANGED <<waterPublisherQueue, consumerVars, notifyPending, skipValve,
                   connected, buttonVars, ipc, lastPublished, lastTaken, drained, resetInFlight>>
    /\ UNCHANGED inputVars
    /\ UNCHANGED intervalVars
    /\ UNCHANGED schedVars
    /\ UNCHANGED workerVars

\* doc[key] | default, and the plain doc[key], which gives 0 for a missing key.
Field(f, default) == IF f = {} THEN default ELSE CHOOSE x \in f : TRUE

\* mqtt.ino: WateringEvent we = { doc["plant_position"] | -1, doc["duration"] | 0, .. }.
DecodeWateringEvent(p) == [pos |-> Field(p.position, -1), dur |-> Field(p.duration, 0)]

\* part_003: WateringEvent we = { doc["valve_id"], doc["water_time"] }.
DecodeValveEvent(p) == [pos |-> Field(p.position, 0), dur |-> Field(p.duration, 0)]

\* processIncomingMessage of mqtt.ino on the water topic.
MqttWaterMessage(p) ==
    /\ p \in Payloads
    /\ MqttWater(DecodeWateringEvent(p))

\* processIncomingMessage of part_003 on the water topic.
MqttValveMessage(p) ==
    /\ p \in Payloads
    /\ MqttWater(DecodeValveEvent(p))

\* The blocked xQueueSend of mqttLoopTask completes.
MqttWaterUnblock ==
    /\ mpc = "blocked"
    /\ ~QueueFull(wateringQueue)
    /\ wateringQueue' = Enqueue(wateringQueue, mPending.pos, mPending.dur)
    /\ nextId' = nextId + 1
    /\ mpc' = "idle"
    /\ mPending' = NoEvent
    /\ UNCHANGED <<waterPublisherQueue, consumerVars, notifyPending, skipValve,
                   connected, buttonVars, ipc, lastPublished, lastTaken, drained, resetInFlight>>
    /\ UNCHANGED inputVars
    /\ UNCHANGED intervalVars
    /\ UNCHANGED schedVars
    /\ UNCHANGED workerVars

\* Faulty variant of stopWatering: it also resets the queue, as stopAllWatering does.
stopWateringAll ==
    /\ notifyPending' = TRUE
    /\ wateringQueue' = <<>>
    /\ UNCHANGED <<drained, resetInFlight>>

\* stopWatering(): xTaskNotify(waterPlantTaskHandle, 0, eNoAction).
stopWatering ==
    /\ notifyPending' = TRUE
    /\ UNCHANGED <<wateringQueue, drained, resetInFlight>>

\* stopCommandTopic.
MqttStop ==
    /\ connected
    /\ mpc = "idle"
    /\ stopWatering
    /\ UNCHANGED <<waterPublisherQueue, consumerVars, skipValve, connected,
                   mqttVars, buttonVars, ipc, lastPublished, lastTaken, nextId>>
    /\ UNCHANGED inputVars
    /\ UNCHANGED intervalVars
    /\ UNCHANGED schedVars
    /\ UNCHANGED workerVars

\* stopAllCommandTopic, first call of stopAllWatering: xQueueReset.
MqttStopAllReset ==
    /\ connected
    /\ mpc = "idle"
    /\ wateringQueue' = ResetQueue(wateringQueue)
    /\ drained' = drained \cup (Ids(wateringQueue) \ Ids(wateringQueue'))
    /\ resetInFlight' = (wpc = "wait")
    /\ mpc' = "notify"
    /\ UNCHANGED <<waterPublisherQueue, consumerVars, notifyPending, skipValve,
                   connected, mPending, buttonVars, ipc, lastPublished, lastTaken, nextId>>
    /\ UNCHANGED inputVars
    /\ UNCHANGED intervalVars
    /\ UNCHANGED schedVars
    /\ UNCHANGED workerVars

\* stopAllWatering, second call: xTaskNotify.
MqttStopAllNotify ==
    /\ mpc = "notify"
    /\ notifyPending' = TRUE
    /\ resetInFlight' = FALSE
    /\ mpc' = "idle"
    /\ UNCHANGED <<wateringQueue, waterPublisherQueue, consumerVars, skipValve,
                   connected, mPending, buttonVars, ipc, lastPublished, lastTaken, nextId,
                   drained>>
    /\ UNCHANGED inputVars
    /\ UNCHANGED intervalVars
    /\ UNCHANGED schedVars
    /\ UNCHANGED workerVars

\* skipCommandTopic (part_003): skipValve[we.valve_id] = true.
MqttSkip(v) ==
    /\ connected
    /\ mpc = "idle"
    /\ skipValve' = [skipValve EXCEPT ![v] = TRUE]
    /\ UNCHANGED <<wateringQueue, waterPublisherQueue, consumerVars,
                   notifyPending, connected, mqttVars, buttonVars, ipc, lastPublished, lastTaken,
                   nextId, drained, resetInFlight>>
    /\ UNCHANGED inputVars
    /\ UNCHANGED intervalVars
    /\ UNCHANGED schedVars
    /\ UNCHANGED workerVars

(* --------------------------- readButtonsTask -------------------------- *)

\* readButton(v) on an accepted press: waterPlant(v, DEFAULT_WATER_TIME).
ButtonPress(v) ==
    /\ bpc = "idle"
    /\ CanAccept
    /\ IF QueueFull(wateringQueue)
       THEN /\ bpc' = "blocked"
            /\ bPending' = [id |-> 0, pos |-> v, dur |-> DEFAULT_WATER_TIME]
            /\ UNCHANGED <<wateringQueue, nextId>>
       ELSE /\ wateringQueue' = Enqueue(wateringQueue, v, DEFAULT_WATER_TIME)
            /\ nextId' = nextId + 1
            /\ UNCHANGED buttonVars
    /\ UNCHANGED <<waterPublisherQueue, consumerVars, notifyPending, skipValve,
                   connected, mqttVars, ipc, lastPublished, lastTaken, drained, resetInFlight>>
    /\ UNCHANGED inputVars
    /\ UNCHANGED intervalVars
    /\ UNCHANGED schedVars
    /\ UNCHANGED workerVars

\* The blocked xQueueSend of readButtonsTask completes.
ButtonPressUnblock ==
    /\ bpc = "blocked"
    /\ ~QueueFull(wateringQueue)
    /\ wateringQueue' = Enqueue(wateringQueue, bPending.pos, bPending.dur)
    /\ nextId' = nextId + 1
    /\ bpc' = "idle"
    /\ bPending' = NoEvent
    /\ UNCHANGED <<waterPublisherQueue, consumerVars, notifyPending, skipValve,
                   connected, mqttVars, ipc, lastPublished, lastTaken, drained, resetInFlight>>
    /\ UNCHANGED inputVars
    /\ UNCHANGED intervalVars
    /\ UNCHANGED schedVars
    /\ UNCHANGED workerVars

\* readStopButton() on an accepted press: stopWatering().
ButtonStop ==
    /\ bpc = "idle"
    /\ stopWatering
    /\ UNCHANGED <<waterPublisherQueue, consumerVars, skipValve, connected,
                   mqttVars, buttonVars, ipc, lastPublished, lastTaken, nextId>>
    /\ UNCHANGED inputVars
    /\ UNCHANGED intervalVars
    /\ UNCHANGED schedVars
    /\ UNCHANGED workerVars

(* -------------------------- waterIntervalTask ------------------------- *)

\* The round the task runs at boot (previousMillis = -INTERVAL): one
\* waterPlant(i, DEFAULT_WATER_TIME) per valve, each waiting for a free slot.
WaterIntervalTask ==
    /\ ipc < NUM_VALVES
    /\ CanAccept
    /\ ~QueueFull(wateringQueue)
    /\ wateringQueue' = Enqueue(wateringQueue, ipc, DEFAULT_WATER_TIME)
    /\ nextId' = nextId + 1
    /\ ipc' = ipc + 1
    /\ UNCHANGED <<waterPublisherQueue, consumerVars, notifyPending, skipValve,
                   connected, mqttVars, buttonVars, lastPublished, lastTaken, drained, resetInFlight>>
    /\ UNCHANGED inputVars
    /\ UNCHANGED intervalVars
    /\ UNCHANGED schedVars
    /\ UNCHANGED workerVars

\* Faulty variant of Due: the difference is taken as a signed number.
DueSigned(currentMillis, previous) == currentMillis - previous >= INTERVAL

\* currentMillis - previousMillis >= INTERVAL, on unsigned long.
Due(currentMillis, previous) == UnsignedLong(currentMillis - previous) >= INTERVAL

\* The ticks vTaskDelay(INTERVAL / portTICK_PERIOD_MS) waits for end between
\* INTERVAL - 1 and INTERVAL tick periods after the call.
DelayTimes == {INTERVAL - 1, INTERVAL}

\* Everything of the firmware the loop head of waterIntervalTask leaves alone.
notIntervalTask == <<wateringQueue, waterPublisherQueue, consumerVars, notifyPending,
                     skipValve, connected, mqttVars, buttonVars, lastPublished,
                     lastTaken, drained, resetInFlight>>

\* The head of the loop: currentMillis = millis() and the test; either the
\* round begins with previousMillis = currentMillis, or the task delays.
IntervalTaskTest ==
    /\ ivc = "test"
    /\ rounds < MaxRounds
    /\ IF Due(now, previousMillis)
       THEN /\ previousMillis' = now
            /\ ipc' = 0
            /\ ivc' = "round"
            /\ sinceRound' = 0
            /\ rounds' = rounds + 1
            /\ UNCHANGED delayLeft
       ELSE /\ ivc' = "delay"
            /\ delayLeft' \in DelayTimes
            /\ UNCHANGED <<previousMillis, ipc, sinceRound, rounds>>
    /\ UNCHANGED <<notIntervalTask, nextId>>
    /\ UNCHANGED inputVars
    /\ UNCHANGED schedVars
    /\ UNCHANGED workerVars

\* waterPlant(i, DEFAULT_WATER_TIME) of the round, waiting for a free slot.
IntervalTaskWater ==
    /\ ivc = "round"
    /\ ipc < NUM_VALVES
    /\ ~QueueFull(wateringQueue)
    /\ wateringQueue' = Enqueue(wateringQueue, ipc, DEFAULT_WATER_TIME)
    /\ nextId' = nextId + 1
    /\ ipc' = ipc + 1
    /\ UNCHANGED <<waterPublisherQueue, consumerVars, notifyPending, skipValve,
                   connected, mqttVars, buttonVars, lastPublished, lastTaken, drained, resetInFlight>>
    /\ UNCHANGED inputVars
    /\ UNCHANGED intervalVars
    /\ UNCHANGED schedVars
    /\ UNCHANGED workerVars

\* The for loop is over: vTaskDelay(INTERVAL / portTICK_PERIOD_MS) begins.
IntervalTaskDelay ==
    /\ ivc = "round"
    /\ ipc = NUM_VALVES
    /\ ivc' = "delay"
    /\ delayLeft' \in DelayTimes
    /\ UNCHANGED <<notIntervalTask, nextId, ipc, previousMillis, sinceRound, rounds>>
    /\ UNCHANGED inputVars
    /\ UNCHANGED schedVars
    /\ UNCHANGED workerVars

\* vTaskDelay returns, at its time or later.
IntervalTaskWake ==
    /\ ivc = "delay"
    /\ delayLeft = 0
    /\ ivc' = "test"
    /\ UNCHANGED <<notIntervalTask, nextId, ipc, previousMillis, delayLeft, sinceRound, rounds>>
    /\ UNCHANGED inputVars
    /\ UNCHANGED schedVars
    /\ UNCHANGED workerVars

\* One millisecond passes while waterIntervalTask waits (in vTaskDelay or
\* for a slot of the queue): millis() counts on unsigned long. A wait lasts
\* less than the range of the counter.
MillisTick ==
    /\ ivc \in {"round", "delay"}
    /\ sinceRound < Wrap - 1
    /\ now' = UnsignedLong(now + 1)
    /\ sinceRound' = sinceRound + 1
    /\ delayLeft' = IF delayLeft > 0 THEN delayLeft - 1 ELSE 0
    /\ UNCHANGED <<notIntervalTask, nextId, ipc, previousMillis, ivc, rounds>>
    /\ UNCHANGED <<scan, lastDebounceTime, buttonStates, lastButtonStates,
                   lastStopDebounceTime, stopButtonState, lastStopButtonState, since>>
    /\ UNCHANGED schedVars
    /\ UNCHANGED workerVars

(* ------------------- readButtonsTask: the samples -------------------- *)

\* Faulty variant of Debounced: a reading that is exactly DEBOUNCE_DELAY old passes.
DebouncedEarly(t, last) == (t - last) >= DEBOUNCE_DELAY

\* if ((millis() - lastDebounceTime) > DEBOUNCE_DELAY)
Debounced(t, last) == (t - last) > DEBOUNCE_DELAY

\* Faulty variant of Restart: the timer is never restarted.
RestartNever(reading, lastReading, t, last) == last

\* if (reading != lastButtonStates[valveID]) lastDebounceTime = millis();
Restart(reading, lastReading, t, last) == IF reading /= lastReading THEN t ELSE last

\* Faulty variant of IsPress: a release counts as a press.
IsPressOrRelease(state) == TRUE

\* if (buttonStates[valveID] == HIGH)
IsPress(state) == state = HIGH

\* What the button task leaves alone.
notButtonTask == <<waterPublisherQueue, consumerVars, skipValve, connected,
                   mqttVars, ipc, lastPublished, lastTaken, drained, resetInFlight,
                   intervalVars>>

\* readButton(v) with gpio_get_level(buttons[v]) = reading.
ReadButton(v, reading) ==
    /\ scan = v
    /\ bpc = "idle"
    /\ lastDebounceTime' = Restart(reading, lastButtonStates[v], now, lastDebounceTime)
    /\ since' = [since EXCEPT ![v] = IF reading /= lastButtonStates[v] THEN now ELSE @]
    /\ IF Debounced(now, lastDebounceTime') /\ reading /= buttonStates[v]
       THEN /\ buttonStates' = [buttonStates EXCEPT ![v] = reading]
            /\ IF IsPress(reading)
               THEN IF QueueFull(wateringQueue)
                    THEN /\ bpc' = "blocked"
                         /\ bPending' = [id |-> 0, pos |-> v, dur |-> DEFAULT_WATER_TIME]
                         /\ UNCHANGED <<wateringQueue, nextId>>
                    ELSE /\ wateringQueue' = Enqueue(wateringQueue, v, DEFAULT_WATER_TIME)
                         /\ nextId' = nextId + 1
                         /\ UNCHANGED buttonVars
               ELSE UNCHANGED <<wateringQueue, nextId, buttonVars>>
       ELSE UNCHANGED <<buttonStates, wateringQueue, nextId, buttonVars>>
    /\ lastButtonStates' = [lastButtonStates EXCEPT ![v] = reading]
    /\ scan' = v + 1
    /\ UNCHANGED <<notButtonTask, notifyPending, now, lastStopDebounceTime,
                   stopButtonState, lastStopButtonState>>
    /\ UNCHANGED schedVars
    /\ UNCHANGED workerVars

\* readStopButton() with gpio_get_level(STOP_BUTTON_PIN) = reading; the loop
\* then starts over.
ReadStopButton(reading) ==
    /\ scan = NUM_VALVES
    /\ bpc = "idle"
    /\ lastStopDebounceTime' = Restart(reading, lastStopButtonState, now, lastStopDebounceTime)
    /\ since' = [since EXCEPT ![NUM_VALVES] = IF reading /= lastStopButtonState THEN now ELSE @]
    /\ IF Debounced(now, lastStopDebounceTime') /\ reading /= stopButtonState
       THEN /\ stopButtonState' = reading
            /\ IF IsPress(reading)
               THEN stopWatering
               ELSE UNCHANGED <<notifyPending, wateringQueue, drained, resetInFlight>>
       ELSE UNCHANGED <<stopButtonState, notifyPending, wateringQueue, drained, resetInFlight>>
    /\ lastStopButtonState' = reading
    /\ scan' = 0
    /\ UNCHANGED <<waterPublisherQueue, consumerVars, skipValve, connected, mqttVars,
                   ipc, lastPublished, lastTaken, nextId, buttonVars, now,
                   lastDebounceTime, buttonStates, lastButtonStates, intervalVars>>
    /\ UNCHANGED schedVars
    /\ UNCHANGED workerVars

\* millis() advances.
ClockTick ==
    /\ now < MaxTime
    /\ now' = now + 1
    /\ UNCHANGED <<wateringQueue, notifyPending, notButtonTask, nextId, buttonVars,
                   scan, lastDebounceTime, buttonStates, lastButtonStates,
                   lastStopDebounceTime, stopButtonState, lastStopButtonState, since>>
    /\ UNCHANGED schedVars
    /\ UNCHANGED workerVars

(* ------------------------------ Next ---------------------------------- *)

Core ==
    \/ WaterPlantTaskReceive
    \/ WaterPlantTaskStart
    \/ Tick
    \/ WaterPlantTaskStop
    \/ WaterPlantTaskSend
    \/ WaterPublisherTask
    \/ MqttConnect
    \/ MqttDisconnect
    \/ \E cmd \in WaterCommands : MqttWater(cmd)
    \/ MqttWaterUnblock
    \/ MqttStop
    \/ MqttStopAllReset
    \/ MqttStopAllNotify
    \/ \E v \in Valves : ButtonPress(v)
    \/ ButtonPressUnblock
    \/ ButtonStop

Next == Core

Spec == Init /\ [][Next]_vars

\* The firmware without stop-all: water commands for the first valve and for
\* a position that is out of range, presses of the last valve's button, and
\* stops of the current event.
LiveCommands == [pos : {0, NUM_VALVES}, dur : Durations]

NextLive ==
    \/ WaterPlantTaskReceive
    \/ WaterPlantTaskStart
    \/ Tick
    \/ WaterPlantTaskStop
    \/ WaterPlantTaskSend
    \/ WaterPublisherTask
    \/ MqttConnect
    \/ \E cmd \in LiveCommands : MqttWater(cmd)
    \/ MqttWaterUnblock
    \/ MqttStop
    \/ \E v \in {NUM_VALVES - 1} : ButtonPress(v)
    \/ ButtonPressUnblock

\* The tasks have one priority and the scheduler shares the time among the
\* ready ones: a task that stays ready takes its step, a wait with a timeout
\* sees its ticks, and a sender blocked on a queue that keeps a free slot
\* is resumed. When a command or a press arrives is up to the environment.
Fairness ==
    /\ WF_vars(WaterPlantTaskReceive)
    /\ WF_vars(WaterPlantTaskStart)
    /\ WF_vars(Tick)
    /\ WF_vars(WaterPlantTaskStop)
    /\ WF_vars(WaterPlantTaskSend)
    /\ WF_vars(WaterPublisherTask)
    /\ WF_vars(MqttWaterUnblock)
    /\ WF_vars(ButtonPressUnblock)

SpecLive == Init /\ [][NextLive]_vars /\ Fairness

\* The firmware with the messages of the water topic as they arrive, decoded
\* by either processIncomingMessage.
NextMessages ==
    \/ WaterPlantTaskReceive
    \/ WaterPlantTaskStart
    \/ Tick
    \/ WaterPlantTaskStop
    \/ WaterPlantTaskSend
    \/ WaterPublisherTask
    \/ MqttConnect
    \/ \E p \in Payloads : MqttWaterMessage(p)
    \/ \E p \in Payloads : MqttValveMessage(p)
    \/ MqttWaterUnblock

SpecMessages == Init /\ [][NextMessages]_vars

\* The firmware of part_003 with water and skip commands for its valves.
NextSkips ==
    \/ WaterPlantTaskReceive
    \/ WaterPlantTaskStart
    \/ Tick
    \/ WaterPlantTaskStop
    \/ WaterPlantTaskSend
    \/ WaterPublisherTask
    \/ MqttConnect
    \/ \E cmd \in WaterCommands : MqttWater(cmd)
    \/ MqttWaterUnblock
    \/ \E v \in Valves : MqttSkip(v)

SpecSkips == Init /\ [][NextSkips]_vars

\* waterIntervalTask with the consumer and the publisher.
NextInterval ==
    \/ WaterPlantTaskReceive
    \/ WaterPlantTaskStart
    \/ Tick
    \/ WaterPlantTaskStop
    \/ WaterPlantTaskSend
    \/ WaterPublisherTask
    \/ IntervalTaskTest
    \/ IntervalTaskWater
    \/ IntervalTaskDelay
    \/ IntervalTaskWake
    \/ MillisTick

SpecInterval == Init /\ [][NextInterval]_vars

\* The button task alone, with the two things it drives: the watering queue
\* and the consumer's notification.
NextButtons ==
    \/ \E v \in Valves, reading \in BOOLEAN : ReadButton(v, reading)
    \/ \E reading \in BOOLEAN : ReadStopButton(reading)
    \/ ClockTick

SpecButtons == Init /\ [][NextButtons]_vars

(* ----------------------- server: water schedules ---------------------- *)

\* EndDated: the end date is set and lies before time.Now().
EndDated(ws) == \E e \in ws.endDate : e < clock

\* Faulty variant of FirstFire: rounds down, to the instant before now.
FirstFireFloor(start, interval, t) ==
    IF t <= start THEN start
    ELSE start + ((t - start) \div interval) * interval

\* Worker, Add: the smallest instant >= now of the form start_time + k*interval.
FirstFire(start, interval, t) ==
    IF t <= start THEN start
    ELSE start + (((t - start) + interval - 1) \div interval) * interval

\* The Job that Add installs for a schedule.
Job(id, ws) == [id |-> id, next |-> FirstFire(ws.start, ws.interval, clock),
                interval |-> ws.interval]

\* Faulty variant of Add: registers a Job whatever the interval.
AddAnyway(js, id, ws) ==
    js \cup {[id |-> id,
              next |-> IF ws.interval <= 0 THEN clock
                       ELSE FirstFire(ws.start, ws.interval, clock),
              interval |-> ws.interval]}

\* worker.ScheduleWaterAction: Add; an interval <= 0 registers nothing.
Add(js, id, ws) == IF ws.interval <= 0 THEN js ELSE js \cup {Job(id, ws)}

\* The error Add returns.
AddError(ws) == IF ws.interval <= 0 THEN InvalidSchedule ELSE NoError

\* Faulty variant of Remove: cancels only a Job that is already due.
RemoveDue(js, id) == {j \in js : j.id /= id \/ j.next > clock}

\* worker.RemoveJobsByID: Remove, a no-op when the id has no Job.
Remove(js, id) == {j \in js : j.id /= id}

\* The error Remove returns: none, also when the id has no Job.
RemoveError(js, id) == NoError

\* Faulty variant of ResetWaterSchedule: adds without removing.
ResetKeep(js, id, ws) == Add(js, id, ws)

\* worker.ResetWaterSchedule: Remove then Add, in one step.
ResetWaterSchedule(js, id, ws) == Add(Remove(js, id), id, ws)

\* Faulty variant of NextFire: counts the interval from the actual fire time.
NextFireFromNow(j) == [j EXCEPT !.next = clock + j.interval]

\* Worker, on fire: the next fire is the missed instant plus the interval.
NextFire(j) == [j EXCEPT !.next = j.next + j.interval]

\* The after-patch hook's condition on the patched resource.
NeedsReset(ws) ==
    \/ ~EndDated(ws)
    \/ ws.interval \in AnyIntervals
    \/ ws.start \in StartTimes

\* Faulty variant of AfterPatch: schedules the patched resource without
\* resetting it.
AfterPatchAdd(js, id, ws) ==
    IF NeedsReset(ws) THEN Add(js, id, ws) ELSE js

\* Faulty variant of AfterPatch: the Job Table is left as it is.
AfterPatchNever(js, id, ws) == js

\* The after-patch hook: reset the schedule if it was changed or its end
\* date removed.
AfterPatch(js, id, ws) ==
    IF NeedsReset(ws) THEN ResetWaterSchedule(js, id, ws) ELSE js

\* The error the after-patch hook returns.
AfterPatchError(ws) == IF NeedsReset(ws) THEN AddError(ws) ELSE NoError

\* What a PATCH body can change: one field of the stored schedule.
Patched(ws) ==
    {[ws EXCEPT !.interval = i] : i \in AnyIntervals}
    \cup {[ws EXCEPT !.start = st] : st \in StartTimes}
    \cup {[ws EXCEPT !.endDate = e] : e \in EndDates}
    \cup {[ws EXCEPT !.duration = d] : d \in ScheduleDurations}

\* The stored schedules GetAll hands to the boot loop.
NotEndDated == {i \in DOMAIN stored : ~EndDated(stored[i])}

\* NewWaterSchedulesResource at boot: every schedule that is not end-dated
\* is scheduled, on a fresh worker, in the order GetAll gives; the first
\* error ends the loop and the construction fails.
Boot ==
    /\ IF \A i \in NotEndDated : AddError(stored[i]) = NoError
       THEN /\ jobs' = {Job(id, stored[id]) : id \in NotEndDated}
            /\ serving' = TRUE
            /\ err' = NoError
       ELSE /\ \E before \in SUBSET {i \in NotEndDated : AddError(stored[i]) = NoError} :
                  jobs' = {Job(id, stored[id]) : id \in before}
            /\ serving' = FALSE
            /\ err' = InvalidSchedule
    /\ lastFire' = [i \in ScheduleIds |-> NoDate]
    /\ inflight' = [i \in ScheduleIds |-> {}]
    /\ logged' = NoError
    /\ UNCHANGED <<clock, stored, nextSchedule>>
    /\ UNCHANGED deviceVars
    /\ UNCHANGED workerVars
    /\ UNCHANGED zoneVars
    /\ UNCHANGED weatherVars

\* The client ids weatherClientsExist looks up: the temperature control's,
\* then the rain control's.
CheckedClients(wc) == wc.temperature \cup wc.rain

\* weatherClientExists: the id is looked up with storageClient.WaterSchedules.Get.
weatherClientExists(id) == id \in DOMAIN stored

\* weatherClientsExist: no error when every looked-up id is found.
weatherClientsExist(wc) == \A id \in CheckedClients(wc) : weatherClientExists(id)

\* createWaterSchedule: the weather clients are looked up; then a new id,
\* saved, then scheduled.
createWaterSchedule(ws, wc) ==
    /\ serving
    /\ nextSchedule <= MaxSchedules
    /\ ws.endDate = NoDate
    /\ request' = wc
    /\ IF ~weatherClientsExist(wc)
       THEN /\ err' = ErrInvalidRequest
            /\ UNCHANGED <<stored, jobs, nextSchedule, weatherControl>>
       ELSE /\ stored' = [i \in DOMAIN stored \cup {nextSchedule} |->
                            IF i = nextSchedule THEN ws ELSE stored[i]]
            /\ weatherControl' = [weatherControl EXCEPT ![nextSchedule] = wc]
            /\ jobs' = Add(jobs, nextSchedule, ws)
            /\ err' = AddError(ws)
            /\ nextSchedule' = nextSchedule + 1
    /\ UNCHANGED <<clock, lastFire, inflight, logged, serving, weatherClients>>
    /\ UNCHANGED deviceVars
    /\ UNCHANGED workerVars
    /\ UNCHANGED zoneVars

\* The after-patch hook's validation of the patched weather_control: its
\* clients are looked up, then its values are validated.
ControlError(wc) ==
    IF wc /= NoWeatherControl /\ (~weatherClientsExist(wc) \/ ~wc.valid)
    THEN ErrInvalidRequest ELSE NoError

\* PATCH and its after-patch hook, which gets the patched resource: ws with
\* the weather_control wc. The request carries one changed field of the
\* schedules wss, one of the controls wcs, or both.
patchWaterSchedule(id, wss, wcs) ==
    /\ serving
    /\ id \in DOMAIN stored
    /\ \E ws \in (Patched(stored[id]) \cap wss) \cup {stored[id]},
          wc \in wcs \cup {weatherControl[id]} :
          /\ ws /= stored[id] \/ wc /= weatherControl[id]
          /\ stored' = [stored EXCEPT ![id] = ws]
          /\ weatherControl' = [weatherControl EXCEPT ![id] = wc]
          /\ IF ControlError(wc) /= NoError
             THEN /\ err' = ControlError(wc)
                  /\ UNCHANGED <<jobs, lastFire>>
             ELSE /\ jobs' = AfterPatch(jobs, id, ws)
                  /\ lastFire' = IF NeedsReset(ws) THEN [lastFire EXCEPT ![id] = NoDate]
                                  ELSE lastFire
                  /\ err' = AfterPatchError(ws)
    /\ UNCHANGED <<clock, nextSchedule, inflight, logged, serving, weatherClients, request>>
    /\ UNCHANGED deviceVars
    /\ UNCHANGED workerVars
    /\ UNCHANGED zoneVars

\* Faulty variant of GetZonesUsingWaterSchedule: end-dated gardens only.
GetZonesOfEndDatedGardens(id) ==
    {z \in zoneStore :
        /\ EndDated([endDate |-> gardenStore[z.garden]])
        /\ ~EndDated(z)
        /\ id \in z.waterScheduleIDs}

\* storage.GetZonesUsingWaterSchedule: the Zones that are not end-dated, of
\* gardens that are not end-dated, that use the schedule.
GetZonesUsingWaterSchedule(id) ==
    {z \in zoneStore :
        /\ ~EndDated([endDate |-> gardenStore[z.garden]])
        /\ ~EndDated(z)
        /\ id \in z.waterScheduleIDs}

\* DELETE with its hooks: refused while Zones use the schedule; else the
\* schedule is deleted and its Jobs are removed.
deleteWaterSchedule(id) ==
    /\ serving
    /\ id \in DOMAIN stored
    /\ IF Cardinality(GetZonesUsingWaterSchedule(id)) > 0
       THEN /\ err' = ErrInvalidRequest
            /\ UNCHANGED <<stored, jobs, lastFire, weatherControl>>
       ELSE /\ stored' = [i \in DOMAIN stored \ {id} |-> stored[i]]
            /\ weatherControl' = [weatherControl EXCEPT ![id] = NoWeatherControl]
            /\ jobs' = Remove(jobs, id)
            /\ lastFire' = [lastFire EXCEPT ![id] = NoDate]
            /\ err' = RemoveError(jobs, id)
    /\ UNCHANGED <<clock, nextSchedule, inflight, logged, serving, weatherClients, request>>
    /\ UNCHANGED deviceVars
    /\ UNCHANGED workerVars
    /\ UNCHANGED zoneVars

\* storage.GetWaterSchedulesUsingWeatherClient: the stored schedules whose
\* rain or temperature control has this ClientID.
GetWaterSchedulesUsingWeatherClient(c) ==
    {i \in DOMAIN stored : c \in weatherControl[i].rain \cup weatherControl[i].temperature}

\* Faulty variant of BeforeDeleteWeatherClient: nothing is refused.
BeforeDeleteAnyWeatherClient(c) == NoError

\* The before-delete hook of the WeatherClients API.
BeforeDeleteWeatherClient(c) ==
    IF Cardinality(GetWaterSchedulesUsingWeatherClient(c)) > 0
    THEN ErrInvalidRequest ELSE NoError

\* DELETE of a WeatherClient: refused while WaterSchedules use it.
deleteWeatherClient(c) ==
    /\ serving
    /\ c \in weatherClients
    /\ err' = BeforeDeleteWeatherClient(c)
    /\ weatherClients' = IF BeforeDeleteWeatherClient(c) = NoError
                         THEN weatherClients \ {c} ELSE weatherClients
    /\ UNCHANGED <<clock, stored, jobs, nextSchedule, lastFire, inflight, logged, serving,
                   weatherControl, request>>
    /\ UNCHANGED deviceVars
    /\ UNCHANGED workerVars
    /\ UNCHANGED zoneVars

\* Faulty variant of AfterFire: a fire that ends with an error cancels its Job.
AfterFireCancel(js, id, e) == IF e = NoError THEN js ELSE Remove(js, id)

\* The Job Table after a fire of id has ended with e: errors are logged and
\* the Job stays.
AfterFire(js, id, e) == js

\* A Job fires, at its instant or late, and the fire runs to its end, without
\* an error, before anything else happens.
Fire(id) ==
    /\ serving
    /\ inflight[id] = {}
    /\ \E j \in jobs :
          /\ j.id = id
          /\ j.next <= clock
          /\ jobs' = AfterFire((jobs \ {j}) \cup {NextFire(j)}, id, NoError)
          /\ lastFire' = [lastFire EXCEPT ![id] = {j.next}]
    /\ logged' = NoError
    /\ UNCHANGED <<clock, stored, nextSchedule, inflight, serving, err>>
    /\ UNCHANGED deviceVars
    /\ UNCHANGED workerVars
    /\ UNCHANGED zoneVars
    /\ UNCHANGED weatherVars

\* A Job fires, at its instant or late: the fire reads the current schedule
\* and the Job is rescheduled; the fire itself is then in progress.
FireStart(id) ==
    /\ serving
    /\ inflight[id] = {}
    /\ \E j \in jobs :
          /\ j.id = id
          /\ j.next <= clock
          /\ jobs' = (jobs \ {j}) \cup {NextFire(j)}
          /\ lastFire' = [lastFire EXCEPT ![id] = {j.next}]
    /\ inflight' = [inflight EXCEPT ![id] = {stored[id].duration}]
    /\ UNCHANGED <<clock, stored, nextSchedule, logged, serving, err>>
    /\ UNCHANGED deviceVars
    /\ UNCHANGED workerVars
    /\ UNCHANGED zoneVars
    /\ UNCHANGED weatherVars

\* The fire in progress completes, with the data it has read: evaluation and
\* dispatch went well, or one of them failed and the error is logged.
FireDone(id) ==
    /\ inflight[id] /= {}
    /\ inflight' = [inflight EXCEPT ![id] = {}]
    /\ \E e \in FireErrors :
          /\ logged' = e
          /\ jobs' = AfterFire(jobs, id, e)
    /\ UNCHANGED <<clock, stored, nextSchedule, lastFire, serving, err>>
    /\ UNCHANGED deviceVars
    /\ UNCHANGED workerVars
    /\ UNCHANGED zoneVars
    /\ UNCHANGED weatherVars

\* time.Now() advances.
TimePasses ==
    /\ clock < MaxClock
    /\ clock' = clock + 1
    /\ UNCHANGED <<stored, jobs, nextSchedule, lastFire, inflight, logged, serving, err>>
    /\ UNCHANGED deviceVars
    /\ UNCHANGED workerVars
    /\ UNCHANGED zoneVars
    /\ UNCHANGED weatherVars

NextSchedules ==
    \/ Boot
    \/ \E ws \in WaterSchedules : createWaterSchedule(ws, NoWeatherControl)
    \/ \E id \in ScheduleIds : patchWaterSchedule(id, WaterSchedules, {})
    \/ \E id \in ScheduleIds : deleteWaterSchedule(id)
    \/ \E id \in ScheduleIds : Fire(id)
    \/ TimePasses

SpecSchedules == Init /\ [][NextSchedules]_vars

\* The server after the first createWaterSchedule, of a schedule that Add
\* accepted.
InitFires ==
    /\ InitDevice
    /\ clock = 0
    /\ \E ws \in WaterSchedules :
          /\ AddError(ws) = NoError
          /\ ws.endDate = NoDate
          /\ stored = [i \in {1} |-> ws]
          /\ jobs = {Job(1, ws)}
    /\ nextSchedule = 2
    /\ lastFire = [i \in ScheduleIds |-> NoDate]
    /\ inflight = [i \in ScheduleIds |-> {}]
    /\ logged = NoError
    /\ serving = TRUE
    /\ err = NoError
    /\ gardenStore = [g \in Gardens |-> NoDate]
    /\ zoneStore = {}
    /\ InitPatch
    /\ weatherClients = {}
    /\ weatherControl = [i \in ScheduleIds |-> NoWeatherControl]
    /\ request = NoWeatherControl
    /\ InitWorker

\* Fires that take time and may fail, next to the PATCHes and the DELETE of
\* their schedule.
NextFires ==
    \/ \E id \in ScheduleIds : patchWaterSchedule(id, WaterSchedules, {})
    \/ \E id \in ScheduleIds : deleteWaterSchedule(id)
    \/ \E id \in ScheduleIds : FireStart(id)
    \/ \E id \in ScheduleIds : FireDone(id)
    \/ TimePasses

SpecFires == InitFires /\ [][NextFires]_vars

(* ------------------------------ Zone.Patch ----------------------------- *)

\* Faulty variant of PatchEndDate: the end date of the patch is taken over.
TakeEndDate(old, new) == new

\* if z.EndDate != nil && newZone.EndDate == nil { z.EndDate = newZone.EndDate }
PatchEndDate(old, new) == IF old /= {} /\ new = {} THEN new ELSE old

\* A string field: taken over when the patch has it non-empty.
PatchString(old, new) == IF new /= "" THEN new ELSE old

\* A pointer field: taken over when the patch has it non-nil.
PatchPointer(old, new) == IF new /= {} THEN new ELSE old

\* The struct behind a pointer, created when it is nil.
Initiate(ptr, empty) == IF ptr = {} THEN empty ELSE Val(ptr)

\* Rain and Temperature of the WeatherControl.
PatchScaleControl(old, new) ==
    IF new = {} THEN old
    ELSE LET o == Initiate(old, EmptyScaleControl)
             n == Val(new)
         IN  {[BaselineValue |-> PatchPointer(o.BaselineValue, n.BaselineValue),
               Factor |-> PatchPointer(o.Factor, n.Factor),
               Range |-> PatchPointer(o.Range, n.Range)]}

PatchSoilMoisture(old, new) ==
    IF new = {} THEN old
    ELSE LET o == Initiate(old, EmptySoilControl)
             n == Val(new)
         IN  {[MinimumMoisture |-> IF n.MinimumMoisture /= 0 THEN n.MinimumMoisture
                                                             ELSE o.MinimumMoisture]}

PatchWeatherControl(old, new) ==
    IF new = {} THEN old
    ELSE LET o == Initiate(old, EmptyControl)
             n == Val(new)
         IN  {[Rain |-> PatchScaleControl(o.Rain, n.Rain),
               SoilMoisture |-> PatchSoilMoisture(o.SoilMoisture, n.SoilMoisture),
               Temperature |-> PatchScaleControl(o.Temperature, n.Temperature)]}

PatchWaterSchedule(old, new) ==
    IF new = {} THEN old
    ELSE LET o == Initiate(old, EmptySchedule)
             n == Val(new)
         IN  {[Duration |-> PatchString(o.Duration, n.Duration),
               Interval |-> PatchString(o.Interval, n.Interval),
               StartTime |-> PatchPointer(o.StartTime, n.StartTime),
               WeatherControl |-> PatchWeatherControl(o.WeatherControl, n.WeatherControl)]}

PatchDetails(old, new) ==
    IF new = {} THEN old
    ELSE LET o == Initiate(old, EmptyDetails)
             n == Val(new)
         IN  {[Description |-> PatchString(o.Description, n.Description),
               Notes |-> PatchString(o.Notes, n.Notes)]}

\* func (z *Zone) Patch(newZone *Zone): z afterwards.
Patch(z, n) ==
    [Name |-> PatchString(z.Name, n.Name),
     Details |-> PatchDetails(z.Details, n.Details),
     ID |-> z.ID,
     Position |-> PatchPointer(z.Position, n.Position),
     CreatedAt |-> PatchPointer(z.CreatedAt, n.CreatedAt),
     EndDate |-> PatchEndDate(z.EndDate, n.EndDate),
     WaterSchedule |-> PatchWaterSchedule(z.WaterSchedule, n.WaterSchedule)]

\* z.Patch(n) on the Zone as it was stored.
PatchZone(n) ==
    /\ applied = 0
    /\ zoneValue' = Patch(zoneValue, n)
    /\ newZone' = n
    /\ zoneOnce' = Patch(zoneValue, n)
    /\ applied' = 1
    /\ UNCHANGED <<zoneBefore, gardenStore, zoneStore>>
    /\ UNCHANGED <<clock, stored, jobs, nextSchedule, lastFire, inflight, logged, serving, err>>
    /\ UNCHANGED weatherVars
    /\ UNCHANGED deviceVars
    /\ UNCHANGED workerVars

\* z.Patch(n) once more with the same n.
PatchZoneAgain ==
    /\ applied = 1
    /\ zoneValue' = Patch(zoneValue, newZone)
    /\ applied' = 2
    /\ UNCHANGED <<newZone, zoneBefore, zoneOnce, gardenStore, zoneStore>>
    /\ UNCHANGED <<clock, stored, jobs, nextSchedule, lastFire, inflight, logged, serving, err>>
    /\ UNCHANGED weatherVars
    /\ UNCHANGED deviceVars
    /\ UNCHANGED workerVars

\* A Zone of the storage is patched, then patched again with the same patch.
InitZonePatch ==
    /\ InitDevice
    /\ clock = 0
    /\ stored = [i \in {} |-> NoDate]
    /\ jobs = {}
    /\ nextSchedule = 1
    /\ lastFire = [i \in ScheduleIds |-> NoDate]
    /\ inflight = [i \in ScheduleIds |-> {}]
    /\ logged = NoError
    /\ serving = TRUE
    /\ err = NoError
    /\ gardenStore = [g \in Gardens |-> NoDate]
    /\ zoneStore = {}
    /\ zoneValue \in ZoneValues
    /\ newZone = BaseZone
    /\ zoneBefore = zoneValue
    /\ zoneOnce = zoneValue
    /\ applied = 0
    /\ weatherClients = {}
    /\ weatherControl = [i \in ScheduleIds |-> NoWeatherControl]
    /\ request = NoWeatherControl
    /\ InitWorker

NextZonePatch ==
    \/ \E n \in ZoneValues : PatchZone(n)
    \/ PatchZoneAgain

SpecZonePatch == InitZonePatch /\ [][NextZonePatch]_vars

\* The server after the first createWaterSchedule, with any gardens and up
\* to two Zones in the storage.
InitZones ==
    /\ InitDevice
    /\ clock = 0
    /\ \E ws \in WaterSchedules :
          /\ AddError(ws) = NoError
          /\ ws.endDate = NoDate
          /\ stored = [i \in {1} |-> ws]
          /\ jobs = {Job(1, ws)}
    /\ nextSchedule = 2
    /\ lastFire = [i \in ScheduleIds |-> NoDate]
    /\ inflight = [i \in ScheduleIds |-> {}]
    /\ logged = NoError
    /\ serving = TRUE
    /\ err = NoError
    /\ gardenStore \in [Gardens -> EndDates]
    /\ zoneStore \in {zs \in SUBSET ZoneRecords : Cardinality(zs) <= 2}
    /\ InitPatch
    /\ weatherClients = {}
    /\ weatherControl = [i \in ScheduleIds |-> NoWeatherControl]
    /\ request = NoWeatherControl
    /\ InitWorker

\* DELETEs of the schedule while time passes over the end dates.
NextZones ==
    \/ \E id \in ScheduleIds : deleteWaterSchedule(id)
    \/ TimePasses

SpecZones == InitZones /\ [][NextZones]_vars

\* The server on a storage that holds any WeatherClients and no schedule.
InitWeather ==
    /\ InitDevice
    /\ InitWorker
    /\ clock = 0
    /\ stored = [i \in {} |-> NoDate]
    /\ jobs = {}
    /\ nextSchedule = 1
    /\ lastFire = [i \in ScheduleIds |-> NoDate]
    /\ inflight = [i \in ScheduleIds |-> {}]
    /\ logged = NoError
    /\ serving = TRUE
    /\ err = NoError
    /\ gardenStore = [g \in Gardens |-> NoDate]
    /\ zoneStore = {}
    /\ InitPatch
    /\ weatherClients \in SUBSET WeatherClientIds
    /\ weatherControl = [i \in ScheduleIds |-> NoWeatherControl]
    /\ request = NoWeatherControl

\* POSTs of schedules with weather control, and DELETEs.
NextWeather ==
    \/ \E ws \in PlainSchedules, wc \in WeatherControls : createWaterSchedule(ws, wc)
    \/ \E id \in ScheduleIds : deleteWaterSchedule(id)
    \/ \E c \in WeatherClientIds : deleteWeatherClient(c)

SpecWeather == InitWeather /\ [][NextWeather]_vars

\* The server on a storage that holds any WeatherClients and one scheduled
\* WaterSchedule with any weather control.
InitClients ==
    /\ InitDevice
    /\ InitWorker
    /\ clock = 0
    /\ \E ws \in PlainSchedules :
          /\ stored = [i \in {1} |-> ws]
          /\ jobs = {Job(1, ws)}
    /\ nextSchedule = 2
    /\ lastFire = [i \in ScheduleIds |-> NoDate]
    /\ inflight = [i \in ScheduleIds |-> {}]
    /\ logged = NoError
    /\ serving = TRUE
    /\ err = NoError
    /\ gardenStore = [g \in Gardens |-> NoDate]
    /\ zoneStore = {}
    /\ InitPatch
    /\ weatherClients \in SUBSET WeatherClientIds
    /\ \E wc \in WeatherControls :
          weatherControl = [i \in ScheduleIds |-> IF i = 1 THEN wc ELSE NoWeatherControl]
    /\ request = NoWeatherControl

\* DELETEs of the WeatherClients and of the schedule.
NextClients ==
    \/ \E id \in ScheduleIds : deleteWaterSchedule(id)
    \/ \E c \in WeatherClientIds : deleteWeatherClient(c)

SpecClients == InitClients /\ [][NextClients]_vars

\* PATCHes of the schedule and its weather control, and DELETEs of the
\* WeatherClients.
NextPatches ==
    \/ \E id \in ScheduleIds : patchWaterSchedule(id, PlainSchedules, WeatherControls)
    \/ \E c \in WeatherClientIds : deleteWeatherClient(c)

SpecPatches == InitClients /\ [][NextPatches]_vars


(* ------------------------ worker: water actions ----------------------- *)

\* Faulty variant of HasSoilMoistureControl: the control is never seen.
HasSoilMoistureControlNever(ws) == FALSE

\* HasSoilMoistureControl: a minimum moisture above 0 is configured.
HasSoilMoistureControl(ws) == ws.soil > 0

\* HasRainControl: a rain control is configured.
HasRainControl(ws) == ws.rain.form /= "none"

\* HasTemperatureControl: a temperature control with a factor is configured.
HasTemperatureControl(ws) ==
    ws.temperature.form /= "none" /\ ws.temperature.factor /= 0

\* Faulty variant of Clamp: only the upper bound is kept.
ClampAbove(x, lo, hi) == IF x > hi THEN hi ELSE x

\* clamp(x, lo, hi).
Clamp(x, lo, hi) == IF x < lo THEN lo ELSE IF x > hi THEN hi ELSE x

\* The scale of one scaling control: 1 + factor * (observed - baseline) / range,
\* clamped to 0 .. upper.
Scale(c, observed) ==
    Clamp(1 + (c.factor * (observed - c.baseline)) \div c.range, 0, c.upper)

\* The controls of ws that scale, and the ones that read a source.
RainScales(ws) == HasRainControl(ws) /\ ws.rain.form = "scale"
RainThreshold(ws) == HasRainControl(ws) /\ ws.rain.form = "threshold"

\* Step 1: the moisture reading is at or above the minimum.
SoilSkip(ws, src) == src.moisture.value >= ws.soil

\* Faulty variant of RainSkip: only rain above the threshold skips.
RainSkipStrict(ws, src) == src.rain.value > ws.rain.threshold

\* Step 2: the rain over the look-back window is at or above the threshold.
RainSkip(ws, src) == src.rain.value >= ws.rain.threshold

\* Steps 3 and 4: the nominal duration times the scales of the controls.
Scaled(ws, src) ==
    ws.duration
      * (IF RainScales(ws) THEN Scale(ws.rain, src.rain.value) ELSE 1)
      * (IF HasTemperatureControl(ws) THEN Scale(ws.temperature, src.temperature.value) ELSE 1)

Skip == [kind |-> "skip", duration |-> 0]
Failed == [kind |-> "error", duration |-> 0]

\* Faulty variant of ReadFailed: the error of a source is not looked at.
ReadFailedIgnored(r) == FALSE

\* The source returned an error.
ReadFailed(r) == ~r.ok

\* The Weather Adjustment Evaluator, in the order of its steps; a source is
\* read when its step is reached, and a failed reading fails the evaluation.
Evaluate(ws, src) ==
    IF HasSoilMoistureControl(ws) /\ ReadFailed(src.moisture) THEN Failed
    ELSE IF HasSoilMoistureControl(ws) /\ SoilSkip(ws, src) THEN Skip
    ELSE IF HasRainControl(ws) /\ ReadFailed(src.rain) THEN Failed
    ELSE IF RainThreshold(ws) /\ RainSkip(ws, src) THEN Skip
    ELSE IF HasTemperatureControl(ws) /\ ReadFailed(src.temperature) THEN Failed
    ELSE [kind |-> "proceed", duration |-> Scaled(ws, src)]

\* mqttClient.WaterTopic: the command topic of the garden.
WaterTopic(g) == g

\* Faulty variant of Dispatch: a publish that failed is made again.
DispatchRetry(g, d, src) ==
    IF d = 0 THEN [sent |-> <<>>, err |-> NoError]
    ELSE IF ~src.topic THEN [sent |-> <<>>, err |-> DispatchFailure]
    ELSE [sent |-> <<[topic |-> WaterTopic(g), duration |-> d]>>, err |-> NoError]

\* The Command Dispatcher: one message on the garden's topic, or the error of
\* the topic or of the publish; nothing is sent again.
Dispatch(g, d, src) ==
    IF d = 0 THEN [sent |-> <<>>, err |-> NoError]
    ELSE IF ~src.topic THEN [sent |-> <<>>, err |-> DispatchFailure]
    ELSE IF ~src.publish THEN [sent |-> <<>>, err |-> DispatchFailure]
    ELSE [sent |-> <<[topic |-> WaterTopic(g), duration |-> d]>>, err |-> NoError]

\* What ExecuteWaterAction publishes and returns.
WaterAction(ws, src) ==
    IF Evaluate(ws, src).kind = "error" THEN [sent |-> <<>>, err |-> ProviderUnavailable]
    ELSE IF Evaluate(ws, src).kind = "skip" THEN [sent |-> <<>>, err |-> NoError]
    ELSE Dispatch(ws.garden, Evaluate(ws, src).duration, src)

\* worker.ExecuteWaterAction(garden, zone, action).
ExecuteWaterAction ==
    /\ executed = "no"
    /\ sent' = sent \o WaterAction(zone, collaborators).sent
    /\ returned' = WaterAction(zone, collaborators).err
    /\ executed' = "water"
    /\ UNCHANGED <<zone, collaborators>>
    /\ UNCHANGED <<deviceVars, schedVars>>

\* worker.ExecuteZoneAction(garden, zone, action): the water part of the
\* action, if it has one.
ExecuteZoneAction(water) ==
    /\ executed = "no"
    /\ sent' = IF water THEN sent \o WaterAction(zone, collaborators).sent ELSE sent
    /\ returned' = IF water THEN WaterAction(zone, collaborators).err ELSE NoError
    /\ executed' = IF water THEN "water" ELSE "empty"
    /\ UNCHANGED <<zone, collaborators>>
    /\ UNCHANGED <<deviceVars, schedVars>>

\* One water action, for any Zone and any answers of the collaborators.
InitExecute ==
    /\ InitDevice
    /\ InitServer
    /\ zone \in Zones
    /\ collaborators \in Collaborators
    /\ sent = <<>>
    /\ returned = NoError
    /\ executed = "no"

NextExecute ==
    \/ ExecuteWaterAction
    \/ \E water \in BOOLEAN : ExecuteZoneAction(water)

SpecExecute == InitExecute /\ [][NextExecute]_vars

(* ============================== claims ================================ *)

AllOff == \A v \in Valves : ~valve[v] /\ ~pump[v]

\* The time an event is to run for, from its duration as dequeued.
Target(req) == IF req = 0 THEN DEFAULT_WATER_TIME ELSE req

Ordered(q) == \A i, j \in 1 .. Len(q) : i < j => q[i].id < q[j].id

\* C1: at most one valve and one pump output is on, it is the output of the
\* one event the consumer executes, and all outputs are off whenever the
\* consumer is not executing (in particular when it holds no event).
C1_MutualExclusion ==
    /\ Cardinality({v \in Valves : valve[v]}) <= 1
    /\ Cardinality({v \in Valves : pump[v]}) <= 1
    /\ wpc /= "wait" => AllOff
    /\ wpc = "wait" => \A v \in Valves : /\ valve[v] <=> v = we.pos
                                        /\ pump[v] <=> v = we.pos
    /\ (we = NoEvent) <=> (wpc = "receive")

C1_Witness ==
    wpc = "wait" /\ valve[1] /\ lastStarted >= 2 /\ wateringQueue /= <<>>

\* C2: the step that ends an execution (timeout or notification) turns every
\* output off and stores the elapsed time in the event; the consumer's next
\* step forwards that event to the publisher queue; the consumer takes nothing
\* from the watering queue until it has done so.
C2_EndOfExecution ==
    [][ /\ (wpc = "wait" /\ wpc' /= "wait") =>
              /\ wpc' = "send"
              /\ AllOff'
              /\ we' = [we EXCEPT !.dur = elapsed]
              /\ wateringQueue' = wateringQueue
        /\ (wpc = "send") =>
              \/ wpc' = "send" /\ we' = we
              \/ /\ wpc' = "receive"
                 /\ waterPublisherQueue' = Append(waterPublisherQueue, we)
                 /\ wateringQueue' = wateringQueue
        /\ (we'.id /= we.id /\ we'.id /= 0) => wpc = "receive"
      ]_vars

C2_Witness ==
    /\ wpc = "send"
    /\ interrupted
    /\ wateringQueue /= <<>>
    /\ waterPublisherQueue /= <<>>

C4_StopCurrent ==
    /\ [][ (~notifyPending /\ notifyPending' /\ mpc /= "notify") =>
              UNCHANGED <<wateringQueue, waterPublisherQueue, consumerVars>>
         ]_vars
    /\ [][ (wpc = "wait" /\ notifyPending /\ elapsed < we.dur) =>
              \/ UNCHANGED consumerVars
              \/ /\ wpc' = "send"
                 /\ we'.dur = elapsed
                 /\ we'.dur < Target(requested)
                 /\ wateringQueue' = wateringQueue
         ]_vars
    /\ [][ (wpc = "receive" /\ wpc' /= "receive") =>
              /\ we' = Head(wateringQueue)
              /\ wateringQueue' = Tail(wateringQueue)
         ]_vars
    /\ [][ (wpc = "clear" /\ wpc' /= "clear" /\ ~skipValve[we.pos]) =>
              wpc' = "wait" /\ valve'[we.pos] /\ ~notifyPending'
         ]_vars

C4_Witness ==
    /\ wpc = "wait"
    /\ notifyPending
    /\ elapsed < we.dur
    /\ Len(wateringQueue) >= 2
    /\ drained = {}
    /\ mpc = "idle"

\* C5: whenever a task that handles stops sits in a blocked enqueue, the stop
\* it handles can still be handled.
C5_StopNeverWaitsForEnqueue ==
    /\ (connected /\ mpc = "blocked") => ENABLED MqttStop
    /\ bpc = "blocked" => ENABLED ButtonStop

\* C6: neither queue ever holds more than QUEUE_SIZE items; a producer enters
\* the blocked state only when the watering queue is full; a blocked producer
\* keeps its event until the step that appends exactly that event.
C6_BackPressure ==
    /\ [](Len(wateringQueue) <= QUEUE_SIZE /\ Len(waterPublisherQueue) <= QUEUE_SIZE)
    /\ [][ (mpc /= "blocked" /\ mpc' = "blocked") =>
              Len(wateringQueue) = QUEUE_SIZE /\ wateringQueue' = wateringQueue
         ]_vars
    /\ [][ (bpc /= "blocked" /\ bpc' = "blocked") =>
              Len(wateringQueue) = QUEUE_SIZE /\ wateringQueue' = wateringQueue
         ]_vars
    /\ [][ mpc = "blocked" =>
              \/ mpc' = "blocked" /\ mPending' = mPending
              \/ /\ Len(wateringQueue) < QUEUE_SIZE
                 /\ wateringQueue' = Append(wateringQueue, [mPending EXCEPT !.id = nextId])
         ]_vars
    /\ [][ bpc = "blocked" =>
              \/ bpc' = "blocked" /\ bPending' = bPending
              \/ /\ Len(wateringQueue) < QUEUE_SIZE
                 /\ wateringQueue' = Append(wateringQueue, [bPending EXCEPT !.id = nextId])
         ]_vars

C6_Witness ==
    /\ mpc = "blocked"
    /\ bpc = "idle"
    /\ Len(wateringQueue) = QUEUE_SIZE
    /\ nextId = QUEUE_SIZE + 1

\* C7: the waiting events are in the order they were accepted and all of them
\* were accepted after the last event started; each start is of a later event
\* than the one before, and happens with every output off.
C7_Fifo ==
    /\ [](/\ Ordered(wateringQueue)
          /\ \A i \in 1 .. Len(wateringQueue) :
                wateringQueue[i].id > lastStarted /\ wateringQueue[i].id > we.id)
    /\ [][ lastStarted' /= lastStarted =>
              lastStarted' > lastStarted /\ AllOff /\ wpc = "clear"
         ]_vars

C7_Witness ==
    /\ lastStarted >= 2
    /\ wpc = "wait"
    /\ wateringQueue /= <<>>
    /\ waterPublisherQueue /= <<>>

C9_DefaultDuration ==
    /\ wpc = "wait" =>
          /\ we.dur = (IF requested = 0 THEN DEFAULT_WATER_TIME ELSE requested)
          /\ we.dur > 0
          /\ elapsed <= we.dur
    /\ (wpc = "send" /\ ~interrupted) =>
          we.dur = (IF requested = 0 THEN DEFAULT_WATER_TIME ELSE requested)

C9_Witness ==
    /\ wpc = "send"
    /\ requested = 0
    /\ ~interrupted
    /\ we.dur = DEFAULT_WATER_TIME

\* C10: a consumer that has ended an event can always hand it over and go on.
C10_NeverBlocksOnTelemetry ==
    wpc = "send" => ENABLED WaterPlantTaskSend

\* C11: a record the publisher takes while disconnected leaves the publisher
\* queue for good and the last published id stays as it was; records are taken
\* in increasing id order and a published id is always newer than every id
\* taken before, so a dropped record is never published later; nothing the
\* publisher took is in either queue or in the consumer's hands again; and the
\* publisher can always take the next waiting record.
C11_DropWhenDisconnected ==
    /\ [](/\ lastPublished <= lastTaken
          /\ \A i \in 1 .. Len(waterPublisherQueue) :
                waterPublisherQueue[i].id > lastTaken
          /\ \A i \in 1 .. Len(wateringQueue) : wateringQueue[i].id > lastTaken
          /\ we.id /= 0 => we.id > lastTaken
          /\ waterPublisherQueue /= <<>> => ENABLED WaterPublisherTask)
    /\ [][ lastTaken' /= lastTaken =>
              /\ waterPublisherQueue /= <<>>
              /\ lastTaken' = Head(waterPublisherQueue).id
              /\ lastTaken' > lastTaken
              /\ waterPublisherQueue' = Tail(waterPublisherQueue)
              /\ wateringQueue' = wateringQueue
              /\ ~connected => lastPublished' = lastPublished
              /\ connected => lastPublished' = lastTaken'
         ]_vars
    /\ [][ lastPublished' /= lastPublished =>
              connected /\ lastPublished' > lastTaken
         ]_vars

C11_Witness ==
    /\ lastTaken = 2
    /\ lastPublished = 0
    /\ connected
    /\ waterPublisherQueue /= <<>>

\* A valve button's accepted state changes from LOW to HIGH in this step.
AcceptedPress(v) == buttonStates[v] = LOW /\ buttonStates'[v] = HIGH

\* C12: the accepted state of an input (a valve button or the stop input)
\* changes only to a value that the input's own samples have shown without a
\* break for longer than DEBOUNCE_DELAY, the sample before included; an event
\* is enqueued (or waits for a slot) and a stop is raised only in a step that
\* accepts such a change.
C12_DebounceSafety ==
    /\ [][ \A v \in Valves : buttonStates'[v] /= buttonStates[v] =>
              /\ now - since[v] > DEBOUNCE_DELAY
              /\ since'[v] = since[v]
              /\ lastButtonStates[v] = buttonStates'[v]
              /\ lastButtonStates'[v] = buttonStates'[v]
         ]_vars
    /\ [][ stopButtonState' /= stopButtonState =>
              /\ now - since[NUM_VALVES] > DEBOUNCE_DELAY
              /\ since'[NUM_VALVES] = since[NUM_VALVES]
              /\ lastStopButtonState = stopButtonState'
         ]_vars
    /\ [][ (wateringQueue' /= wateringQueue \/ bpc' /= bpc) =>
              \E v \in Valves : buttonStates'[v] /= buttonStates[v]
         ]_vars
    /\ [][ notifyPending' /= notifyPending => stopButtonState' /= stopButtonState ]_vars

C12_Witness ==
    /\ buttonStates[1] = HIGH
    /\ lastButtonStates[1] = LOW
    /\ stopButtonState = HIGH
    /\ wateringQueue /= <<>>
    /\ notifyPending

\* C13: a step in which a valve button's accepted state goes LOW -> HIGH puts
\* exactly one event for that valve with DEFAULT_WATER_TIME on the queue (or,
\* the queue being full, leaves the task waiting with exactly that event);
\* no other step of the button task enqueues anything, so a held button and
\* an accepted release enqueue nothing, and a button whose accepted state is
\* HIGH must be accepted LOW before it can enqueue again.
C13_OneEventPerPress ==
    /\ [][ \A v \in Valves : AcceptedPress(v) =>
              \/ /\ Len(wateringQueue) < QUEUE_SIZE
                 /\ wateringQueue' = Append(wateringQueue,
                        [id |-> nextId, pos |-> v, dur |-> DEFAULT_WATER_TIME])
                 /\ bpc' = "idle"
              \/ /\ Len(wateringQueue) = QUEUE_SIZE
                 /\ wateringQueue' = wateringQueue
                 /\ bpc' = "blocked"
                 /\ bPending' = [id |-> 0, pos |-> v, dur |-> DEFAULT_WATER_TIME]
         ]_vars
    /\ [][ (wateringQueue' /= wateringQueue \/ bpc' /= bpc) =>
              \E v \in Valves : AcceptedPress(v) /\ scan = v
         ]_vars
    /\ [][ \A v \in Valves : (buttonStates[v] = HIGH /\ scan = v /\ scan' /= scan) =>
              wateringQueue' = wateringQueue /\ bpc' = bpc
         ]_vars

C13_Witness ==
    /\ Len(wateringQueue) = 2
    /\ wateringQueue[1].pos = 2
    /\ wateringQueue[2].pos = 2
    /\ buttonStates[2] = HIGH

C15_StopInput ==
    /\ [][ stopButtonState' /= stopButtonState =>
              /\ scan = NUM_VALVES
              /\ now - since[NUM_VALVES] > DEBOUNCE_DELAY
              /\ lastStopButtonState' = stopButtonState'
         ]_vars
    /\ [][ (/\ scan = NUM_VALVES
            /\ scan' /= scan
            /\ lastStopButtonState' = lastStopButtonState
            /\ lastStopButtonState /= stopButtonState
            /\ now - since[NUM_VALVES] > DEBOUNCE_DELAY) =>
              stopButtonState' = lastStopButtonState
         ]_vars
    /\ [][ (stopButtonState = LOW /\ stopButtonState' = HIGH) =>
              /\ notifyPending'
              /\ UNCHANGED <<wateringQueue, waterPublisherQueue, consumerVars, drained>>
         ]_vars
    /\ [][ notifyPending' /= notifyPending =>
              stopButtonState = LOW /\ stopButtonState' = HIGH
         ]_vars

C15_Witness ==
    /\ stopButtonState = HIGH
    /\ notifyPending
    /\ Len(wateringQueue) = QUEUE_SIZE
    /\ since[NUM_VALVES] < since[0]

\* C16: a valve button whose own samples have differed from its accepted
\* state, without a break, for longer than DEBOUNCE_DELAY is accepted at its
\* next sample, whatever the other buttons' samples were.
C16_PerInputDebounce ==
    [][ \A v \in Valves :
          (/\ scan = v
           /\ scan' /= scan
           /\ lastButtonStates'[v] = lastButtonStates[v]
           /\ lastButtonStates[v] /= buttonStates[v]
           /\ now - since[v] > DEBOUNCE_DELAY) =>
             buttonStates'[v] = lastButtonStates[v]
      ]_vars

(* --------------------------- water schedules -------------------------- *)

\* The Jobs a run can hold.
Jobs == [id : ScheduleIds, next : 0 .. (MaxClock + MaxInterval + MaxInterval), interval : Intervals]

\* The ids that have a Job.
Scheduled == {j.id : j \in jobs}

\* The stored schedules that are not end-dated.
Active == {id \in DOMAIN stored : ~EndDated(stored[id])}

\* C17: the Job Table never holds two Jobs for one schedule id, whatever the
\* order of creates, patches (resets), deletes, boots and fires.
C17_OneJobPerSchedule ==
    \A j1 \in jobs : \A j2 \in jobs : j1.id = j2.id => j1 = j2

\* A patched schedule (only a PATCH sets an end date) holds the one Job its
\* reset installed, with a first fire later than its start_time.
C17_Witness ==
    \E j \in jobs :
        /\ stored[j.id].endDate /= NoDate
        /\ j.interval = stored[j.id].interval
        /\ j.next > stored[j.id].start
        /\ lastFire[j.id] = NoDate
        /\ Cardinality(jobs) = MaxSchedules

IsFirstFire(n, start, interval, t) ==
    /\ n >= t
    /\ \E k \in 0 .. (MaxClock + MaxInterval) :
          /\ n = start + k * interval
          /\ k = 0 \/ start + (k - 1) * interval < t

\* The step installs j for its schedule: the schedule is new or was patched,
\* or j is a Job that has not fired and was not in the table before.
Installs(j) ==
    /\ j \in jobs'
    /\ j.id \in DOMAIN stored'
    /\ \/ j.id \notin DOMAIN stored
       \/ stored'[j.id] /= stored[j.id]
       \/ j \notin jobs /\ lastFire'[j.id] = NoDate

\* C19: a Job installed by Add has as its first fire instant the smallest
\* instant >= now of the form start_time + k*interval with k >= 0; when
\* start_time is now, that instant is now.
C19_FirstFireInstant ==
    [][ \A j \in Jobs :
          Installs(j) =>
             /\ IsFirstFire(j.next, stored'[j.id].start, stored'[j.id].interval, clock)
             /\ stored'[j.id].start = clock => j.next = clock
      ]_vars

\* A schedule whose start_time is one instant in the past was scheduled with
\* interval 2: its first fire is one instant ahead.
C19_Witness ==
    \E j \in jobs :
        /\ lastFire[j.id] = NoDate
        /\ stored[j.id].start = clock - 1
        /\ stored[j.id].interval = MaxInterval
        /\ j.next = clock + MaxInterval - 1
        /\ clock > 1

\* C20: two consecutive fires of a Job are scheduled exactly one interval
\* apart, however late either of them ran: the fire that follows the one at
\* lastFire is scheduled at lastFire + interval, and the Job's next instant is
\* always its last fire instant plus the interval.
C20_NoPhaseDrift ==
    /\ [][ \A id \in ScheduleIds : \A t1 \in lastFire[id] : \A t2 \in lastFire'[id] :
              t2 /= t1 => \E j \in jobs : j.id = id /\ t2 - t1 = j.interval
         ]_vars
    /\ [][ \A j \in jobs' : \A t \in lastFire'[j.id] :
              j.next = t + j.interval
         ]_vars

\* A Job with interval 1 has fired at an instant after its start_time, and
\* its next fire, one interval after that one, is already overdue.
C20_Witness ==
    \E j \in jobs : \E t \in lastFire[j.id] :
        /\ j.interval = 1
        /\ t > stored[j.id].start
        /\ clock > t + 1
        /\ j.next = t + 1

\* C21: a schedule whose interval is <= 0 is refused by Add with
\* InvalidSchedule and the Job Table stays as it was; no schedule with such an
\* interval ever has a Job, and none ever fires.
C21_InvalidSchedule ==
    /\ [][ \A id \in ScheduleIds :
              (id \notin DOMAIN stored /\ id \in DOMAIN stored' /\ stored'[id].interval <= 0) =>
                  jobs' = jobs /\ err' = InvalidSchedule
         ]_vars
    /\ [](\A j \in jobs : j.interval > 0 /\ stored[j.id].interval > 0)
    /\ [][ \A id \in DOMAIN stored :
              (lastFire'[id] /= lastFire[id] /\ lastFire'[id] /= NoDate) =>
                  stored[id].interval > 0
         ]_vars

\* A schedule without an interval was created: it is stored, its create
\* returned InvalidSchedule, and time has passed without a Job for it.
C21_Witness ==
    /\ serving
    /\ err = InvalidSchedule
    /\ jobs = {}
    /\ clock > 1
    /\ \E id \in DOMAIN stored : stored[id].interval = 0 /\ stored[id].endDate = NoDate

\* C22: Remove is idempotent. From every reachable Job Table and for every
\* id: removing an id that has no Job changes nothing and returns no error,
\* removing twice gives what removing once gives, and a Reset followed at
\* once by Remove leaves no Job for the id. A DELETE of a schedule that has no
\* Job leaves the Job Table as it was and succeeds.
C22_RemoveIdempotent ==
    /\ [](\A id \in ScheduleIds :
            /\ id \notin Scheduled => Remove(jobs, id) = jobs
            /\ RemoveError(jobs, id) = NoError
            /\ Remove(Remove(jobs, id), id) = Remove(jobs, id)
            /\ \A ws \in WaterSchedules :
                  \A j \in Remove(ResetWaterSchedule(jobs, id, ws), id) : j.id /= id)
    /\ [][ \A id \in DOMAIN stored :
              (id \notin DOMAIN stored' /\ id \notin Scheduled) =>
                  jobs' = jobs /\ err' = NoError
         ]_vars

\* Every schedule was created and deleted again before time passed: nothing
\* is stored, no id has a Job, and the DELETE returned no error.
C22_Witness ==
    /\ serving
    /\ DOMAIN stored = {}
    /\ nextSchedule > MaxSchedules
    /\ jobs = {}
    /\ err = NoError
    /\ clock = 0

\* C23: a fire that starts finds the data of the last Reset: the Job that
\* fires has the stored interval and an instant start_time + k*interval of the
\* stored start_time, and the fire reads the stored duration. A fire that was
\* already in progress when the Reset came keeps what it had read.
C23_ResetAtomic ==
    /\ [][ \A id \in ScheduleIds :
              (inflight[id] = {} /\ inflight'[id] /= {}) =>
                  /\ inflight'[id] = {stored[id].duration}
                  /\ \E j \in jobs :
                        /\ j.id = id
                        /\ j.next <= clock
                        /\ j.interval = stored[id].interval
                        /\ j.next >= stored[id].start
                        /\ (j.next - stored[id].start) % j.interval = 0
         ]_vars
    /\ [][ \A id \in ScheduleIds :
              (inflight[id] /= {} /\ stored' /= stored) => inflight'[id] = inflight[id]
         ]_vars

\* A fire is in progress that started after the schedule's last PATCH, with
\* the duration now stored.
C23_Witness ==
    \E id \in DOMAIN stored :
        /\ stored[id].endDate /= NoDate
        /\ stored[id].duration = 2
        /\ lastFire[id] /= NoDate
        /\ inflight[id] = {stored[id].duration}
        /\ clock > 1

\* C24: a fire that ends with an evaluator or dispatcher error leaves the Job
\* Table as it is: the Job stays, scheduled one interval after the instant
\* that failed, and the failed instant is not scheduled again. Whether an id
\* has a Job changes only in a step that changes the stored schedules (a
\* DELETE's Remove or a PATCH's Reset).
C24_ErrorsKeepJob ==
    /\ [][ \A id \in ScheduleIds :
              (inflight[id] /= {} /\ inflight'[id] = {}) =>
                  /\ jobs' = jobs
                  /\ \A j \in jobs' : \A t \in lastFire'[id] :
                        j.id = id => j.next = t + j.interval
         ]_vars
    /\ [][ Scheduled' /= Scheduled => stored' /= stored ]_vars

\* A fire has ended with an error and its Job is registered for the next
\* interval.
C24_Witness ==
    \E j \in jobs : \E t \in lastFire[j.id] :
        /\ logged /= NoError
        /\ inflight[j.id] = {}
        /\ j.next = t + j.interval
        /\ j.next <= clock

(* ---------------------------- water actions --------------------------- *)

\* The one command a water action of the Zone publishes for duration d.
Command(d) == <<[topic |-> zone.garden, duration |-> d]>>

\* C25: with a soil-moisture control configured and a moisture reading at or
\* above minimum_moisture, the evaluation is skip and the water action
\* publishes nothing, whatever the rain and temperature controls are; with a
\* reading below the minimum and no other control, the command is published
\* with the nominal duration.
C25_SoilPrecedence ==
    /\ (/\ zone.soil > 0
        /\ collaborators.moisture.ok
        /\ collaborators.moisture.value >= zone.soil) =>
            /\ Evaluate(zone, collaborators) = Skip
            /\ executed = "water" => sent = <<>> /\ returned = NoError
    /\ (/\ executed = "water"
        /\ zone.soil > 0
        /\ collaborators.moisture.ok
        /\ collaborators.moisture.value < zone.soil
        /\ zone.rain = NoControl
        /\ zone.temperature = NoControl
        /\ collaborators.topic
        /\ collaborators.publish) =>
            sent = Command(zone.duration)

\* A water action has run for a Zone whose moisture reading equals the
\* minimum, with a rain and a temperature control that scale: nothing sent.
C25_Witness ==
    /\ executed = "water"
    /\ zone.soil > 0
    /\ collaborators.moisture.ok
    /\ collaborators.moisture.value = zone.soil
    /\ zone.rain.form = "scale"
    /\ HasTemperatureControl(zone)
    /\ collaborators.rain.ok /\ collaborators.temperature.ok
    /\ collaborators.topic /\ collaborators.publish
    /\ sent = <<>>

\* C26: with a rain control in threshold form and a moisture step that
\* neither failed nor skipped, rain at or above the threshold gives skip:
\* nothing is published and no error is returned; rain below the threshold,
\* with no other control, publishes exactly one command.
C26_RainThresholdInclusive ==
    /\ (/\ executed = "water"
        /\ zone.rain.form = "threshold"
        /\ zone.soil = 0
        /\ collaborators.rain.ok
        /\ collaborators.rain.value >= zone.rain.threshold) =>
            /\ Evaluate(zone, collaborators) = Skip
            /\ sent = <<>>
            /\ returned = NoError
    /\ (/\ executed = "water"
        /\ zone.rain.form = "threshold"
        /\ zone.soil = 0
        /\ zone.temperature = NoControl
        /\ collaborators.rain.ok
        /\ collaborators.rain.value < zone.rain.threshold
        /\ collaborators.topic
        /\ collaborators.publish) =>
            /\ Len(sent) = 1
            /\ sent = Command(zone.duration)
            /\ returned = NoError

\* A water action has run with rain equal to the threshold and a working MQTT
\* client: nothing was published.
C26_Witness ==
    /\ executed = "water"
    /\ zone.rain.form = "threshold"
    /\ zone.soil = 0
    /\ collaborators.rain.ok
    /\ collaborators.rain.value = zone.rain.threshold
    /\ collaborators.topic /\ collaborators.publish
    /\ sent = <<>>
    /\ returned = NoError

\* The source of a configured control answers with an error.
MoistureFails == zone.soil > 0 /\ ~collaborators.moisture.ok
RainFails == zone.rain.form /= "none" /\ ~collaborators.rain.ok
TemperatureFails ==
    /\ zone.temperature.form /= "none"
    /\ zone.temperature.factor /= 0
    /\ ~collaborators.temperature.ok

\* C27: a water action whose evaluation meets a failing source publishes
\* nothing and returns the error. A failing source is never watered past:
\* either the error is returned, or an earlier step had already skipped.
C27_ReadErrorNeverWaters ==
    /\ (executed = "water" /\ (MoistureFails \/ RainFails \/ TemperatureFails)) =>
            /\ sent = <<>>
            /\ returned = ProviderUnavailable \/ Evaluate(zone, collaborators) = Skip
    /\ (executed = "water" /\ MoistureFails) => returned = ProviderUnavailable
    /\ (executed = "water" /\ zone.soil = 0 /\ RainFails) => returned = ProviderUnavailable
    /\ (executed = "water" /\ zone.soil = 0 /\ zone.rain = NoControl /\ TemperatureFails) =>
            returned = ProviderUnavailable

\* A water action has run whose moisture source failed while the MQTT client
\* worked: nothing was published and the error came back.
C27_Witness ==
    /\ executed = "water"
    /\ MoistureFails
    /\ collaborators.rain.ok /\ collaborators.temperature.ok
    /\ collaborators.topic /\ collaborators.publish
    /\ sent = <<>>
    /\ returned = ProviderUnavailable

\* e is the scale of control c at the observed value: the value of
\* 1 + factor * (observed - baseline) / range when that lies in 0 .. upper,
\* else the nearer end of 0 .. upper.
IsScale(e, c, observed) ==
    /\ e >= 0
    /\ e <= c.upper
    /\ e * c.range /= c.range + c.factor * (observed - c.baseline) =>
          \/ e = 0 /\ c.range + c.factor * (observed - c.baseline) < 0
          \/ e = c.upper /\ c.range + c.factor * (observed - c.baseline) > c.upper * c.range

\* The scales a resolved duration can be made of: 1 for a control that is not
\* configured or does not scale.
Scales == 0 .. 2

\* C28: when the evaluation proceeds, the resolved duration is the nominal
\* duration times the scale of each scaling control, every scale clamped to
\* 0 .. upper and 1 for a control that is absent, so it is not negative; a
\* resolved duration of 0 publishes nothing, any other is the one command's.
C28_ResolvedDuration ==
    Evaluate(zone, collaborators).kind = "proceed" =>
        /\ \E r \in Scales : \E t \in Scales :
              /\ IF zone.rain.form = "scale"
                 THEN IsScale(r, zone.rain, collaborators.rain.value)
                 ELSE r = 1
              /\ IF zone.temperature.form = "scale" /\ zone.temperature.factor /= 0
                 THEN IsScale(t, zone.temperature, collaborators.temperature.value)
                 ELSE t = 1
              /\ Evaluate(zone, collaborators).duration = zone.duration * r * t
        /\ Evaluate(zone, collaborators).duration >= 0
        /\ (executed = "water" /\ Evaluate(zone, collaborators).duration = 0) =>
              sent = <<>> /\ returned = NoError
        /\ (executed = "water" /\ Evaluate(zone, collaborators).duration > 0
              /\ collaborators.topic /\ collaborators.publish) =>
              sent = Command(Evaluate(zone, collaborators).duration)

\* A water action has run whose rain scale was cut to its upper bound and whose
\* temperature scale fell to 0: the resolved duration is 0, nothing published.
C28_Witness ==
    /\ executed = "water"
    /\ zone.soil = 0
    /\ zone.rain.form = "scale" /\ zone.rain.factor /= 0 /\ zone.rain.range = 1
    /\ collaborators.rain.ok /\ collaborators.rain.value > zone.rain.baseline
    /\ HasTemperatureControl(zone)
    /\ collaborators.temperature.ok /\ collaborators.temperature.value = 0
    /\ collaborators.topic /\ collaborators.publish
    /\ Evaluate(zone, collaborators) = [kind |-> "proceed", duration |-> 0]
    /\ sent = <<>>
    /\ returned = NoError

\* C29: an action that has run with a water part and a resolved duration
\* above 0 has published exactly one command, on the water topic of the
\* Zone's garden, when the topic was resolved and the publish went through;
\* when either failed, nothing was published and the error came back. No
\* action publishes more than one message, and an action without a water part
\* publishes nothing and returns no error.
C29_DispatchOnce ==
    /\ Len(sent) <= 1
    /\ executed = "empty" => sent = <<>> /\ returned = NoError
    /\ (/\ executed = "water"
        /\ Evaluate(zone, collaborators).kind = "proceed"
        /\ Evaluate(zone, collaborators).duration > 0) =>
            IF collaborators.topic /\ collaborators.publish
            THEN /\ sent = <<[topic |-> zone.garden,
                             duration |-> Evaluate(zone, collaborators).duration]>>
                 /\ returned = NoError
            ELSE /\ sent = <<>>
                 /\ returned = DispatchFailure

\* A water action has run whose publish failed after the topic was resolved:
\* nothing was published, the error came back.
C29_Witness ==
    /\ executed = "water"
    /\ Evaluate(zone, collaborators).kind = "proceed"
    /\ Evaluate(zone, collaborators).duration > 0
    /\ collaborators.topic
    /\ ~collaborators.publish
    /\ sent = <<>>
    /\ returned = DispatchFailure

(* ------------------------------- DELETE ------------------------------- *)

\* The Zones that keep a schedule from being deleted, as the claim words it.
InUse(id) ==
    \E z \in zoneStore :
        /\ id \in z.waterScheduleIDs
        /\ \A e \in z.endDate : e >= clock
        /\ \A e \in gardenStore[z.garden] : e >= clock

\* C30: while a Zone that is not end-dated, of a garden that is not
\* end-dated, uses a stored schedule, a DELETE of it is refused as an invalid
\* request and the schedule and the Job Table stay as they are; a Job goes
\* away only in a DELETE of a schedule that no such Zone uses.
C30_DeleteInUse ==
    /\ [][ \A id \in DOMAIN stored :
              InUse(id) =>
                  /\ id \in DOMAIN stored'
                  /\ stored'[id] = stored[id]
                  /\ \A j \in jobs : j.id = id => j \in jobs'
         ]_vars
    /\ [][ (clock' = clock /\ stored' = stored) => err' = ErrInvalidRequest ]_vars
    /\ [][ Scheduled' /= Scheduled =>
              \E id \in DOMAIN stored :
                  /\ id \notin DOMAIN stored'
                  /\ ~InUse(id)
                  /\ err' = NoError
         ]_vars

\* A DELETE was refused at a time when one Zone using the schedule was
\* end-dated and another was not: the schedule and its Job are still there.
C30_Witness ==
    /\ err = ErrInvalidRequest
    /\ clock > 1
    /\ \E id \in DOMAIN stored :
          /\ id \in Scheduled
          /\ InUse(id)
          /\ \E z \in zoneStore : id \in z.waterScheduleIDs /\ EndDated(z)

(* --------------------------- WeatherClients --------------------------- *)

\* A stored WaterSchedule names the client in its rain or temperature control.
Referenced(c) ==
    \E i \in DOMAIN stored : weatherControl[i].rain = {c} \/ weatherControl[i].temperature = {c}

\* C31: a DELETE of a WeatherClient that the rain or temperature control of
\* a stored WaterSchedule references is refused and the client stays in
\* storage; a client that no WaterSchedule references can be deleted, also
\* while schedules reference other ids, and only such a client ever leaves
\* the storage.
C31_DeleteWeatherClient ==
    /\ [][ \A c \in weatherClients : Referenced(c) => c \in weatherClients' ]_vars
    /\ [][ (err' = ErrInvalidRequest /\ err /= ErrInvalidRequest) =>
              /\ weatherClients' = weatherClients
              /\ \E c \in weatherClients : Referenced(c)
         ]_vars
    /\ [][ weatherClients' /= weatherClients =>
              \E c \in weatherClients :
                  /\ weatherClients' = weatherClients \ {c}
                  /\ ~Referenced(c)
                  /\ err' = NoError
         ]_vars
    /\ [](\A c \in weatherClients :
              ~Referenced(c) =>
                  ENABLED (deleteWeatherClient(c) /\ c \notin weatherClients' /\ err' = NoError))

\* The DELETE of a referenced client was refused: it is still stored, next to
\* a schedule that references it and a second id besides; the other client,
\* which no schedule references, is gone.
C31_Witness ==
    /\ err = ErrInvalidRequest
    /\ \E c \in weatherClients :
          /\ Referenced(c)
          /\ \E i \in DOMAIN stored :
                CheckedClients(weatherControl[i]) \ {c} /= {}
    /\ \E c \in WeatherClientIds \ weatherClients : ~Referenced(c)

\* C32: a POST of a WaterSchedule succeeds exactly when every client id its
\* rain and temperature controls reference is among the stored
\* WeatherClients; a refused POST stores no schedule and adds no Job.
C32_CreateNeedsClients ==
    /\ [][ (request' /= request \/ nextSchedule' /= nextSchedule) =>
              ((nextSchedule' = nextSchedule + 1 /\ err' = NoError)
                  <=> CheckedClients(request') \subseteq weatherClients)
         ]_vars
    /\ [][ (request' /= request /\ ~(CheckedClients(request') \subseteq weatherClients)) =>
              (stored' = stored /\ jobs' = jobs)
         ]_vars

\* The weather control is not valid: it references a client that is not
\* stored, or its values fail validation.
InvalidControl(wc) ==
    wc /= NoWeatherControl /\ (~(CheckedClients(wc) \subseteq weatherClients) \/ ~wc.valid)

\* C39: a PATCH that leaves the schedule's weather control invalid is
\* refused as an invalid request and leaves the Job Table as it is.
C39_InvalidPatchKeepsJob ==
    [][ \A id \in DOMAIN stored :
           ((stored'[id] /= stored[id] \/ weatherControl'[id] /= weatherControl[id])
                /\ InvalidControl(weatherControl'[id]))
           => (err' = ErrInvalidRequest /\ jobs' = jobs /\ lastFire' = lastFire)
      ]_vars

(* ------------------------ stale notifications ------------------------ *)

\* C33: a stop notification issued while no event is executing is cleared
\* when the next event is dequeued: that event is started with no
\* notification pending, its valve is opened, and unless a stop arrives
\* during its own wait it runs for its full requested duration.
C33_StaleStopCleared ==
    /\ [][ (wpc = "clear" /\ wpc' /= "clear") =>
              /\ ~notifyPending'
              /\ ~skipValve[we.pos] => (wpc' = "wait" /\ valve'[we.pos] /\ lastStarted' = we.id)
         ]_vars
    /\ [][ (wpc = "wait" /\ wpc' = "send" /\ ~notifyPending) =>
              (~interrupted' /\ we'.dur = Normalize(requested))
         ]_vars
    /\ [](wpc = "send" /\ ~interrupted => we.dur = Normalize(requested))

\* A stop-all emptied the queue and notified the consumer while no event had
\* ever been started; the notification is gone and the first event started
\* since has run for its full duration.
C33_Witness ==
    /\ wpc = "send"
    /\ ~interrupted
    /\ ~notifyPending
    /\ mpc = "idle"
    /\ drained /= {}
    /\ we.id \notin drained
    /\ lastTaken = 0
    /\ waterPublisherQueue = <<>>
    /\ \A i \in 1 .. we.id - 1 : i \in drained
    /\ we.dur = Normalize(requested)
    /\ we.dur > 0

(* ----------------------- stopAllWatering races ----------------------- *)

\* The event the consumer holds is the one enqueued just before the events
\* that xQueueReset removed: it was dequeued, and not finished, when
\* stopAllWatering was called.
HeldAtReset ==
    /\ drained /= {}
    /\ \A d \in drained : we.id < d
    /\ we.id + 1 \in drained

\* C34: an event that was enqueued before stopAllWatering was called and
\* had not finished then is never started (when it was still queued) or is
\* cut short (when the consumer held it): it does not run for its full
\* requested duration.
C34_StopAllCutsShort ==
    /\ [](lastStarted \notin drained)
    /\ [][ (HeldAtReset /\ wpc = "wait" /\ wpc' = "send") =>
              we'.dur < Normalize(requested)
         ]_vars

(* --------------------------- valve positions -------------------------- *)

\* A message that names no valve: its position is out of range, or it has
\* no position field (also when the payload did not parse).
NamesNoValve(p) == \A x \in p.position : x \notin Valves

\* C35: every event on the watering queue, waiting to be enqueued or held by
\* the consumer has a position in [0, NUM_VALVES); a water command whose
\* position is out of range or missing is discarded: the queue, the task
\* that received it and the outputs stay as they are.
C35_OnlyValidPositions ==
    /\ [](\A i \in 1 .. Len(wateringQueue) : wateringQueue[i].pos \in Valves)
    /\ [](wpc /= "receive" => we.pos \in Valves)
    /\ [](mpc = "blocked" => mPending.pos \in Valves)
    /\ [][ \A p \in Payloads :
              (NamesNoValve(p) /\ (MqttWaterMessage(p) \/ MqttValveMessage(p))) =>
                  UNCHANGED <<wateringQueue, mqttVars, nextId, valve, pump>>
         ]_vars

(* ------------------------------ skip flag ------------------------------ *)

\* The consumer decides on the event it dequeued: it leaves "clear".
Decides == wpc = "clear" /\ wpc' /= "clear"

\* C37: a skip command for valve v sets the flag of v alone, however many
\* times it is sent; the next event for v the consumer decides on is consumed
\* with no output switched on and no telemetry record, and the flag of v is
\* cleared by that, so the event for v after it, and every event for a valve
\* whose flag is not set, is started as usual; a record reaches the
\* publisher only from an event that was started.
C37_SkipOnce ==
    /\ [][ \A v \in Valves : (skipValve'[v] /\ ~skipValve[v]) =>
              /\ \A u \in Valves \ {v} : skipValve'[u] = skipValve[u]
              /\ UNCHANGED <<wateringQueue, waterPublisherQueue, consumerVars, valve, pump>>
         ]_vars
    /\ [][ \A v \in Valves : (skipValve[v] /\ ~skipValve'[v]) =>
              (Decides /\ we.pos = v) ]_vars
    /\ [][ (Decides /\ skipValve[we.pos]) =>
              /\ wpc' = "receive"
              /\ we' = NoEvent
              /\ ~skipValve'[we.pos]
              /\ \A u \in Valves \ {we.pos} : skipValve'[u] = skipValve[u]
              /\ UNCHANGED <<wateringQueue, waterPublisherQueue, valve, pump, lastStarted>>
         ]_vars
    /\ [][ (Decides /\ ~skipValve[we.pos]) =>
              /\ wpc' = "wait"
              /\ valve'[we.pos] /\ pump'[we.pos]
              /\ lastStarted' = we.id
              /\ skipValve' = skipValve
         ]_vars
    /\ [][ waterPublisherQueue' /= waterPublisherQueue /\ Len(waterPublisherQueue') > Len(waterPublisherQueue) =>
              /\ wpc = "send"
              /\ lastStarted = we.id
              /\ waterPublisherQueue' = Append(waterPublisherQueue, we)
         ]_vars

\* The first event was skipped (it left no record and nothing was published)
\* and the second, for a valve whose flag is clear again, is being watered.
C37_Witness ==
    /\ wpc = "wait"
    /\ we.id = 2
    /\ valve[we.pos]
    /\ ~skipValve[we.pos]
    /\ lastStarted = 2
    /\ waterPublisherQueue = <<>>
    /\ lastTaken = 0
    /\ lastPublished = 0

(* --------------------------- interval rounds --------------------------- *)

\* waterIntervalTask has made its test.
Tested == ivc = "test" /\ ivc' /= "test"

\* C38: the first test after boot starts a round; every later test starts
\* one exactly when at least INTERVAL milliseconds have passed since the
\* millis() reading of the previous round, also when the counter has wrapped
\* in between; a round puts one DEFAULT_WATER_TIME event per valve on the
\* queue in index order, and nothing is enqueued outside a round.
C38_IntervalRounds ==
    /\ [][ (Tested /\ rounds = 0) => ivc' = "round" ]_vars
    /\ [][ (Tested /\ rounds > 0) => (ivc' = "round" <=> sinceRound >= INTERVAL) ]_vars
    /\ [][ (Tested /\ ivc' = "round") => (ipc' = 0 /\ previousMillis' = now) ]_vars
    /\ [][ (ivc = "round" /\ wateringQueue' /= wateringQueue /\ Len(wateringQueue') > Len(wateringQueue)) =>
              /\ wateringQueue' = Append(wateringQueue,
                                         [id |-> nextId, pos |-> ipc, dur |-> DEFAULT_WATER_TIME])
              /\ ipc' = ipc + 1
              /\ ivc' = "round"
         ]_vars
    /\ [][ ivc = "round" => (ipc' = ipc \/ ipc' = ipc + 1) ]_vars
    /\ [][ (ivc = "round" /\ ivc' /= "round") => ipc = NUM_VALVES ]_vars
    /\ [][ ivc /= "round" => Len(wateringQueue') <= Len(wateringQueue) ]_vars

\* The third round has just begun at a reading below INTERVAL: the first
\* round read 0 and the second at least INTERVAL, so the counter wrapped
\* between the second round and this test.
C38_Witness ==
    /\ ivc = "round"
    /\ rounds = 3
    /\ ipc = 0
    /\ sinceRound = 0
    /\ previousMillis = now
    /\ now < INTERVAL

(* ------------------------------ Zone.Patch ----------------------------- *)

\* The fields of a Zone by name, a field behind a nil pointer at its zero value.
ScheduleOf(zn) == Initiate(zn.WaterSchedule, EmptySchedule)
ControlOf(zn) == Initiate(ScheduleOf(zn).WeatherControl, EmptyControl)
RainOf(zn) == Initiate(ControlOf(zn).Rain, EmptyScaleControl)
TemperatureOf(zn) == Initiate(ControlOf(zn).Temperature, EmptyScaleControl)
SoilOf(zn) == Initiate(ControlOf(zn).SoilMoisture, EmptySoilControl)
DetailsOf(zn) == Initiate(zn.Details, EmptyDetails)

Fields(zn) ==
    [Name |-> zn.Name, Position |-> zn.Position, CreatedAt |-> zn.CreatedAt,
     Duration |-> ScheduleOf(zn).Duration, Interval |-> ScheduleOf(zn).Interval,
     StartTime |-> ScheduleOf(zn).StartTime,
     RainBaselineValue |-> RainOf(zn).BaselineValue, RainFactor |-> RainOf(zn).Factor,
     RainRange |-> RainOf(zn).Range,
     TemperatureBaselineValue |-> TemperatureOf(zn).BaselineValue,
     TemperatureFactor |-> TemperatureOf(zn).Factor,
     TemperatureRange |-> TemperatureOf(zn).Range,
     MinimumMoisture |-> SoilOf(zn).MinimumMoisture,
     Description |-> DetailsOf(zn).Description, Notes |-> DetailsOf(zn).Notes]

\* C40: after z.Patch(n), z has an end date only if it had that one before,
\* and an end date it had is gone exactly when n has none; every field that
\* is empty or nil in n has the value it had in z, a struct n does not carry
\* is the one z had, and the ID is untouched; a second z.Patch(n) leaves z
\* as the first one made it.
C40_PatchFrame ==
    applied >= 1 =>
        /\ zoneOnce.EndDate \in {{}, zoneBefore.EndDate}
        /\ zoneBefore.EndDate /= {} => (zoneOnce.EndDate = {} <=> newZone.EndDate = {})
        /\ \A f \in DOMAIN Fields(BaseZone) :
              Fields(newZone)[f] = Fields(BaseZone)[f] => Fields(zoneOnce)[f] = Fields(zoneBefore)[f]
        /\ newZone.WaterSchedule = {} => zoneOnce.WaterSchedule = zoneBefore.WaterSchedule
        /\ ScheduleOf(newZone).WeatherControl = {} =>
              ScheduleOf(zoneOnce).WeatherControl = ScheduleOf(zoneBefore).WeatherControl
        /\ newZone.Details = {} => zoneOnce.Details = zoneBefore.Details
        /\ zoneOnce.ID = zoneBefore.ID
        /\ applied = 1 => zoneValue = zoneOnce
        /\ applied = 2 => zoneValue = zoneOnce

\* A Zone with an end date was patched twice with a patch that names it anew
\* and carries no end date.
C40_Witness ==
    /\ applied = 2
    /\ zoneBefore.EndDate /= {}
    /\ newZone.EndDate = {}
    /\ zoneValue.EndDate = {}
    /\ newZone.Name /= ""
    /\ zoneValue.Name = newZone.Name
    /\ zoneValue.Name /= zoneBefore.Name
    /\ zoneValue.Position = zoneBefore.Position
    /\ zoneBefore.Position /= {}

(* ------------------------------- progress ------------------------------ *)

EventIds == 1 .. MaxEvents

Queued(i) == \E k \in 1 .. Len(wateringQueue) : wateringQueue[k].id = i
Executing(i) == wpc = "wait" /\ we.id = i /\ valve[we.pos] /\ pump[we.pos]

\* C36: with no stop-all, every event on the watering queue is eventually
\* executed, every executing event is eventually received by the publisher
\* from its queue, and a producer blocked on the full queue eventually gets
\* its event in.
C36_Progress ==
    /\ \A i \in EventIds : Queued(i) ~> Executing(i)
    /\ \A i \in EventIds : Executing(i) ~> (lastTaken = i)
    /\ (mpc = "blocked") ~> (mpc = "idle")
    /\ (bpc = "blocked") ~> (bpc = "idle")

\* Every event the bound allows was accepted, executed and received by the
\* publisher over a live connection, and no task waits for another.
C36_Witness ==
    /\ nextId = MaxEvents + 1
    /\ lastStarted = MaxEvents
    /\ lastTaken = MaxEvents
    /\ lastPublished = MaxEvents
    /\ wateringQueue = <<>>
    /\ waterPublisherQueue = <<>>
    /\ wpc = "receive"
    /\ mpc = "idle"
    /\ bpc = "idle"

====
